---- MODULE Spec2Model ----
(***************************************************************************)
(* A model of the ncbi-oauth JWT library:                                  *)
(*   - the process-wide JWA registry (src/ncbi-jwt/jwa-factory.cpp),       *)
(*   - the JSON parser (src/ncbi-json/json.cpp).                           *)
(* Text is a sequence of byte values (0..255); a position is the C++       *)
(* 0-based offset, so the byte at offset p of text s is s[p + 1].          *)
(***************************************************************************)
EXTENDS Integers, Sequences, FiniteSets, TLC

(***************************************************************************)
(* Bounds of the model.                                                    *)
(***************************************************************************)
\* number of distinct signer factory objects (and of verifier factory
\* objects) the callers own and may hand to the registry
NFacts == 2
\* number of threads registering concurrently during static construction
NThreads == 2

(***************************************************************************)
(* JWA registry: state                                                     *)
(***************************************************************************)
VARIABLES
    NDEBUG,     \* build configuration: TRUE when assert() is compiled out
    phase,      \* lifetime of gJWAFactory: "static", "live", "dead", "aborted"
    maps,       \* JWAFactory::maps: null (0) or the index of a Maps object in heap
    heap,       \* every Maps object allocated so far, in order of allocation
    released,   \* per factory object: how many times it has been deleted
    ret,        \* the last call on the registry and its outcome
    pc,         \* per thread: position inside a concurrent registration
    targ,       \* per thread: the arguments of its registration
    jtext,      \* the text handed to the JSON parser
    jlim,       \* the Limits value the caller supplies
    default_limits, \* JSON::default_limits, process-wide
    out,        \* the outcome of the last parser call
    this,       \* a JSONObject, JSONArray, JWTClaims or JWTFactory in use
    last,       \* the last call on this and its outcome
    jwk,        \* the last call that constructs a JWK, and what it did
    pem,        \* JWK::parsePEM: its arguments, locals and position
    jwt,        \* the compact JWT handed to JWTFactory::decode
    id_seq      \* JWTFactory::id_seq, the process-wide jti counter

regvars == << NDEBUG, phase, maps, heap, released, ret >>
mtvars == << pc, targ >>
jsonvars == << jtext, jlim, default_limits, out >>
objvars == << this, last >>
jwkvars == << jwk, pem >>
jwtvars == << jwt, id_seq >>
extvars == << objvars, jwkvars, jwtvars >>
vars == << regvars, mtvars, jsonvars, extvars >>

Threads == 1 .. NThreads

nullptr == << "nullptr", 0 >>

\* JWAFactory::Maps::Maps - the names a registration is accepted under
sign_accept ==
    { "HS256", "HS384", "HS512", "RS256", "RS384", "RS512",
      "ES256", "ES384", "ES512", "PS256", "PS384", "PS512" }

\* the algorithm names callers pass in: two accepted names and two that are not
AlgInputs == { "HS256", "RS256", "none", "XS256" }
NameInputs == { "kid-1", "kid-2" }
KeyInputs == { "secret" }

\* factory objects: ("s", i) is a JWASignerFact, ("v", i) a JWAVerifierFact
SignerFactObjs == { <<"s", i>> : i \in 1 .. NFacts }
VerifierFactObjs == { <<"v", i>> : i \in 1 .. NFacts }
FactObjs == SignerFactObjs \cup VerifierFactObjs

EmptyMap == [ a \in {} |-> nullptr ]

\* new Maps: both factory maps empty, the accept set filled by the constructor
NewMaps ==
    [ sign_accept |-> sign_accept,
      signer_facts |-> EmptyMap,
      verifier_facts |-> EmptyMap ]

\* the record of one call: what was called, with what, and how it ended;
\* outcome is "returned", "throw" (JWTException), "instance" or "abort"
Call(op, alg, name, key, fact, outcome, made_by) ==
    [ op |-> op, alg |-> alg, name |-> name, key |-> key, fact |-> fact,
      outcome |-> outcome, made_by |-> made_by ]

NoCall == Call("none", "", "", "", nullptr, "returned", nullptr)

\* the signer / verifier map as seen through the maps pointer
signer_facts == IF maps = 0 THEN EmptyMap ELSE heap[maps].signer_facts
verifier_facts == IF maps = 0 THEN EmptyMap ELSE heap[maps].verifier_facts

\* JWAFactory::makeMaps as a function of (maps, heap): allocate when null
MakeMapsPtr(m, h) == IF m = 0 THEN Len(h) + 1 ELSE m
\* a makeMaps that puts a new Maps in the place of the one that exists
MakeMapsHeapAnew(m, h) ==
    IF m = 0 THEN Append(h, NewMaps) ELSE [ h EXCEPT ![m] = NewMaps ]

MakeMapsHeap(m, h) == IF m = 0 THEN Append(h, NewMaps) ELSE h

\* std::map::emplace / assignment through an iterator
MapPut(f, k, v) == [ a \in DOMAIN f \cup {k} |-> IF a = k THEN v ELSE f[a] ]

\* the registration body of registerSignerFact / registerVerifierFact on one
\* factory map: the map afterwards
RegisterInto(facts, alg, fact) ==
    IF alg \notin DOMAIN facts
    THEN MapPut(facts, alg, fact)
    ELSE IF facts[alg] # fact
         THEN MapPut(facts, alg, fact)
         ELSE facts

\* the factory the registration body deletes: nullptr when it deletes none
RegisterDeletes(facts, alg, fact) ==
    IF alg \in DOMAIN facts /\ facts[alg] # fact THEN facts[alg] ELSE nullptr

\* delete of a factory object
Release(rel, f) ==
    IF f = nullptr THEN rel ELSE [ rel EXCEPT ![f] = @ + 1 ]

\* a whitelist test that accepts every name
AcceptableAny(accept, alg) == TRUE

\* the whitelist test of a registration: sign_accept.find(alg) != end()
Acceptable(accept, alg) == alg \in accept

\* the factories a caller can pass: nullptr, or an object that is still alive
PassableFacts(objs) == { nullptr } \cup { f \in objs : released[f] = 0 }

(***************************************************************************)
(* JWA registry: operations of the single-threaded program                 *)
(***************************************************************************)
InitRegistry ==
    /\ NDEBUG \in BOOLEAN
    /\ phase = "static"
    /\ maps = 0
    /\ heap = << >>
    /\ released = [ f \in FactObjs |-> 0 ]
    /\ ret = NoCall

\* one registration, whole: makeMaps, the two asserts, the whitelist test and
\* the map update; field is "signer_facts" or "verifier_facts"
Register(op, field, alg, fact) ==
    LET m == MakeMapsPtr(maps, heap)
        h == MakeMapsHeap(maps, heap)
        ok == Acceptable(h[m].sign_accept, alg)
        facts == h[m][field]
        del == RegisterDeletes(facts, alg, fact)
    IN  /\ phase \in { "static", "live" }
        /\ maps' = m
        /\ IF (~ ok \/ fact = nullptr) /\ ~ NDEBUG
           THEN \* assert ( ok != end ) or assert ( fact != nullptr ) fails
                /\ heap' = h
                /\ phase' = "aborted"
                /\ ret' = Call(op, alg, "", "", fact, "abort", nullptr)
                /\ UNCHANGED released
           ELSE IF ok /\ fact # nullptr
           THEN IF del # nullptr /\ released[del] > 0
                THEN \* delete of an object already deleted: undefined
                     \* behaviour, the call goes on or the process dies
                     \/ /\ heap' = [ h EXCEPT ![m][field] =
                                        RegisterInto(facts, alg, fact) ]
                        /\ released' = Release(released, del)
                        /\ ret' = Call(op, alg, "", "", fact, "returned", nullptr)
                        /\ UNCHANGED phase
                     \/ /\ heap' = h
                        /\ phase' = "aborted"
                        /\ ret' = Call(op, alg, "", "", fact, "abort", nullptr)
                        /\ UNCHANGED released
                ELSE /\ heap' = [ h EXCEPT ![m][field] =
                                     RegisterInto(facts, alg, fact) ]
                     /\ released' = Release(released, del)
                     /\ ret' = Call(op, alg, "", "", fact, "returned", nullptr)
                     /\ UNCHANGED phase
           ELSE /\ heap' = h
                /\ ret' = Call(op, alg, "", "", fact, "returned", nullptr)
                /\ UNCHANGED << phase, released >>
        /\ UNCHANGED << NDEBUG, mtvars, jsonvars, extvars >>

registerSignerFact ==
    \E alg \in AlgInputs, fact \in PassableFacts(SignerFactObjs) :
        Register("registerSignerFact", "signer_facts", alg, fact)

registerVerifierFact ==
    \E alg \in AlgInputs, fact \in PassableFacts(VerifierFactObjs) :
        Register("registerVerifierFact", "verifier_facts", alg, fact)

\* JWAFactory::JWAFactory: the maps are allocated unless they exist
JWAFactoryCtor ==
    /\ phase = "static"
    /\ phase' = "live"
    /\ maps' = MakeMapsPtr(maps, heap)
    /\ heap' = MakeMapsHeap(maps, heap)
    /\ ret' = Call("JWAFactory", "", "", "", nullptr, "returned", nullptr)
    /\ UNCHANGED << NDEBUG, released, mtvars, jsonvars, extvars >>

\* JWAFactory::~JWAFactory: delete maps; maps = nullptr
JWAFactoryDtor ==
    /\ phase = "live"
    /\ phase' = "dead"
    /\ maps' = 0
    /\ ret' = Call("~JWAFactory", "", "", "", nullptr, "returned", nullptr)
    /\ UNCHANGED << NDEBUG, heap, released, mtvars, jsonvars, extvars >>

\* the lookup of makeSigner / makeVerifier: is a factory registered under alg
Registered(facts, alg) == alg \in DOMAIN facts

\* makeSigner / makeVerifier, whole; called after static construction only
Make(op, facts, alg, name, key) ==
    /\ phase = "live"
    /\ IF ~ Registered(facts, alg)
       THEN /\ ret' = Call(op, alg, name, key, nullptr, "throw", nullptr)
            /\ UNCHANGED phase
       ELSE IF released[facts[alg]] = 0
       THEN /\ ret' = Call(op, alg, name, key, nullptr, "instance", facts[alg])
            /\ UNCHANGED phase
       ELSE \* fact -> make on a deleted object: undefined behaviour, the
            \* call works on the stale memory or the process dies
            \/ /\ ret' = Call(op, alg, name, key, nullptr, "instance", facts[alg])
               /\ UNCHANGED phase
            \/ /\ ret' = Call(op, alg, name, key, nullptr, "abort", nullptr)
               /\ phase' = "aborted"
    /\ UNCHANGED << NDEBUG, maps, heap, released, mtvars, jsonvars, extvars >>

makeSigner ==
    \E alg \in AlgInputs, name \in NameInputs, key \in KeyInputs :
        Make("makeSigner", signer_facts, alg, name, key)

makeVerifier ==
    \E alg \in AlgInputs, name \in NameInputs, key \in KeyInputs :
        Make("makeVerifier", verifier_facts, alg, name, key)

\* the parser is not running: its variables at rest
JSONIdle ==
    /\ jtext = << >>
    /\ jlim = << >>
    /\ default_limits = << >>
    /\ out = << >>

\* no thread is registering: the thread variables at rest
ThreadsIdle ==
    /\ pc = [ t \in Threads |-> "idle" ]
    /\ targ = [ t \in Threads |-> << >> ]

\* no JWT is being signed or decoded
JWTIdle ==
    /\ jwt = << >>
    /\ id_seq = 0

\* no JSON or JWT object is in use
ObjIdle ==
    /\ this = << >>
    /\ last = << >>
    /\ JWTIdle

\* no JWK is being constructed
JWKIdle ==
    /\ jwk = << >>
    /\ pem = << >>

Init == InitRegistry /\ ThreadsIdle /\ JSONIdle /\ ObjIdle /\ JWKIdle

Next ==
    \/ registerSignerFact
    \/ registerVerifierFact
    \/ JWAFactoryCtor
    \/ JWAFactoryDtor
    \/ makeSigner
    \/ makeVerifier

Spec == Init /\ [][Next]_vars

(***************************************************************************)
(* JWA registry: registrations running concurrently during static          *)
(* construction.  A registration is three steps: the null test of makeMaps,*)
(* the allocation of makeMaps, and the rest of the call.                   *)
(***************************************************************************)
\* what a thread registers: each thread brings a factory object of its own
ThreadArgs(t) ==
    { [ field |-> fld, alg |-> a,
        fact |-> << IF fld = "signer_facts" THEN "s" ELSE "v",
                    ((t - 1) % NFacts) + 1 >> ] :
      fld \in { "signer_facts", "verifier_facts" },
      a \in { "HS256", "RS256", "none" } }

InitMT ==
    /\ InitRegistry
    /\ JSONIdle
    /\ ObjIdle
    /\ JWKIdle
    /\ pc = [ t \in Threads |-> "start" ]
    /\ targ \in { f \in [ Threads -> UNION { ThreadArgs(t) : t \in Threads } ] :
                    \A t \in Threads : f[t] \in ThreadArgs(t) }

\* makeMaps, line 254: if ( maps == nullptr )
makeMaps_test(t) ==
    /\ phase # "aborted"
    /\ pc[t] = "start"
    /\ pc' = [ pc EXCEPT ![t] = IF maps = 0 THEN "alloc" ELSE "body" ]
    /\ UNCHANGED << regvars, targ, jsonvars, extvars >>

\* makeMaps, line 256: maps = new Maps
makeMaps_new(t) ==
    /\ phase # "aborted"
    /\ pc[t] = "alloc"
    /\ heap' = Append(heap, NewMaps)
    /\ maps' = Len(heap) + 1
    /\ pc' = [ pc EXCEPT ![t] = "body" ]
    /\ UNCHANGED << NDEBUG, phase, released, ret, targ, jsonvars, extvars >>

\* the rest of the registration, on the Maps object maps points to now
register_body(t) ==
    LET a == targ[t]
        facts == heap[maps][a.field]
        ok == Acceptable(heap[maps].sign_accept, a.alg)
    IN  /\ phase # "aborted"
        /\ pc[t] = "body"
        /\ IF ~ ok /\ ~ NDEBUG
           THEN /\ phase' = "aborted"
                /\ UNCHANGED << heap, released >>
           ELSE IF ok /\ a.fact # nullptr
           THEN /\ heap' = [ heap EXCEPT ![maps][a.field] =
                                RegisterInto(facts, a.alg, a.fact) ]
                /\ released' =
                     Release(released, RegisterDeletes(facts, a.alg, a.fact))
                /\ UNCHANGED phase
           ELSE UNCHANGED << heap, released, phase >>
        /\ pc' = [ pc EXCEPT ![t] = "done" ]
        /\ UNCHANGED << NDEBUG, maps, ret, targ, jsonvars, extvars >>

NextMT ==
    \E t \in Threads :
        \/ makeMaps_test(t)
        \/ makeMaps_new(t)
        \/ register_body(t)

SpecMT == InitMT /\ [][NextMT]_vars

(***************************************************************************)
(* Claims about the JWA registry                                           *)
(***************************************************************************)
RegOps == { "registerSignerFact", "registerVerifierFact" }
MakeOps == { "makeSigner", "makeVerifier" }

\* the factory map a call works on
FactsOf(op) ==
    IF op \in { "registerSignerFact", "makeSigner" }
    THEN signer_facts ELSE verifier_facts

RegisteredNames == DOMAIN signer_facts \cup DOMAIN verifier_facts

C2_Make ==
    [][ ret'.op \in MakeOps =>
          IF ret'.alg \notin DOMAIN FactsOf(ret'.op)
          THEN ret'.outcome = "throw" /\ ret'.made_by = nullptr
          ELSE /\ ret'.outcome = "instance"
               /\ ret'.made_by = FactsOf(ret'.op)[ret'.alg]
               /\ released[ret'.made_by] = 0 ]_vars

\* C3: a registration of f2 under a whitelisted name that holds f1 leaves f2
\* in the map and releases f1 exactly once, and no factory a map still holds
\* is released by a registration.
C3_Replace ==
    [][ (ret'.op \in RegOps /\ ret'.outcome = "returned"
            /\ ret'.alg \in sign_accept /\ ret'.fact # nullptr)
        => LET before == FactsOf(ret'.op)
               after == IF ret'.op = "registerSignerFact"
                        THEN signer_facts' ELSE verifier_facts'
           IN  /\ after[ret'.alg] = ret'.fact
               /\ (ret'.alg \in DOMAIN before /\ before[ret'.alg] # ret'.fact)
                    => released'[before[ret'.alg]] = 1
               /\ \A a \in DOMAIN after : released'[after[a]] = 0 ]_vars

\* C4: when every concurrent registration has finished, exactly one Maps
\* object has been allocated and every registration under an accepted name
\* is in it.
C4_ThreadSafe ==
    (phase # "aborted" /\ \A t \in Threads : pc[t] = "done")
    => /\ Len(heap) = 1
       /\ \A t \in Threads :
            targ[t].alg \in sign_accept
            => targ[t].alg \in DOMAIN heap[maps][targ[t].field]

(***************************************************************************)
(* JSON parser: bytes and the C library                                    *)
(***************************************************************************)
\* the byte value of a character of the source alphabet
Ord(c) ==
    CASE c = " " -> 32   [] c = "\t" -> 9   [] c = "\n" -> 10   [] c = "\"" -> 34
      [] c = "+" -> 43   [] c = "," -> 44   [] c = "-" -> 45   [] c = "." -> 46
      [] c = "/" -> 47   [] c = "0" -> 48   [] c = "1" -> 49   [] c = "2" -> 50
      [] c = "3" -> 51   [] c = "4" -> 52   [] c = "5" -> 53   [] c = "6" -> 54
      [] c = "7" -> 55   [] c = "8" -> 56   [] c = "9" -> 57   [] c = ":" -> 58
      [] c = "A" -> 65   [] c = "B" -> 66   [] c = "C" -> 67   [] c = "D" -> 68
      [] c = "E" -> 69   [] c = "F" -> 70   [] c = "G" -> 71   [] c = "I" -> 73
      [] c = "K" -> 75   [] c = "L" -> 76   [] c = "N" -> 78   [] c = "P" -> 80
      [] c = "R" -> 82   [] c = "S" -> 83   [] c = "T" -> 84   [] c = "U" -> 85
      [] c = "V" -> 86   [] c = "X" -> 88   [] c = "Y" -> 89   [] c = "[" -> 91
      [] c = "\\" -> 92   [] c = "]" -> 93   [] c = "a" -> 97   [] c = "b" -> 98
      [] c = "c" -> 99   [] c = "d" -> 100   [] c = "e" -> 101   [] c = "f" -> 102
      [] c = "g" -> 103   [] c = "i" -> 105   [] c = "k" -> 107   [] c = "l" -> 108
      [] c = "n" -> 110   [] c = "o" -> 111   [] c = "p" -> 112   [] c = "q" -> 113   [] c = "r" -> 114   [] c = "s" -> 115
      [] c = "t" -> 116   [] c = "u" -> 117   [] c = "v" -> 118   [] c = "x" -> 120
      [] c = "y" -> 121   [] c = "z" -> 122   [] c = "{" -> 123   [] c = "}" -> 125

\* a text written as a tuple of characters, as bytes
Str(cs) == [ i \in 1 .. Len(cs) |-> Ord(cs[i]) ]

\* std::string::npos
npos == 0 - 1

\* json [ pos ]: reading at size () yields the terminating '\0'
At(text, pos) == IF pos < Len(text) THEN text[pos + 1] ELSE 0

\* text . substr ( pos, n )
substr(text, pos, n) ==
    LET m == IF pos + n > Len(text) THEN Len(text) - pos ELSE n
    IN  [ i \in 1 .. m |-> text[pos + i] ]

\* text . compare ( pos, Len ( word ), word ) == 0
compare_eq(text, pos, word) == substr(text, pos, Len(word)) = word

\* <ctype.h> in the "C" locale
isspace(c) == c = 32 \/ c \in 9 .. 13
isdigit(c) == c \in 48 .. 57
isupper(c) == c \in 65 .. 90
islower(c) == c \in 97 .. 122
isalnum(c) == isdigit(c) \/ isupper(c) \/ islower(c)
toupper(c) == IF islower(c) THEN c - 32 ELSE c
isxdigit(c) == isdigit(c) \/ c \in 65 .. 70 \/ c \in 97 .. 102
xdigit_val(c) ==
    IF isdigit(c) THEN c - 48 ELSE IF c \in 65 .. 70 THEN c - 55 ELSE c - 87

\* the offset of the first byte at or after pos that satisfies no isspace,
\* or Len ( text ) when there is none
RECURSIVE first_nonspace(_, _)
first_nonspace(text, pos) ==
    IF pos < Len(text) /\ isspace(text[pos + 1])
    THEN first_nonspace(text, pos + 1)
    ELSE pos

\* skip_whitespace: the new pos, npos when only whitespace is left
skip_whitespace(text, pos) ==
    LET p == first_nonspace(text, pos)
    IN  IF p >= Len(text) THEN npos ELSE p

\* text . find_first_of ( "\\\"", pos )
RECURSIVE find_first_of_esc(_, _)
find_first_of_esc(text, pos) ==
    IF pos >= Len(text) THEN npos
    ELSE IF text[pos + 1] = 92 \/ text[pos + 1] = 34 THEN pos
    ELSE find_first_of_esc(text, pos + 1)

\* the number of bytes from offset pos on that satisfy isdigit
RECURSIVE digit_run(_, _)
digit_run(text, pos) ==
    IF pos < Len(text) /\ isdigit(text[pos + 1])
    THEN 1 + digit_run(text, pos + 1)
    ELSE 0

\* the number of bytes from offset pos on that satisfy isxdigit
RECURSIVE xdigit_run(_, _)
xdigit_run(text, pos) ==
    IF pos < Len(text) /\ isxdigit(text[pos + 1])
    THEN 1 + xdigit_run(text, pos + 1)
    ELSE 0

\* the value of n hexadecimal digits from offset pos on
RECURSIVE xdigits_val(_, _, _)
xdigits_val(text, pos, n) ==
    IF n = 0 THEN 0
    ELSE 16 * xdigits_val(text, pos, n - 1) + xdigit_val(text[pos + n])

(***************************************************************************)
(* JSON parser: values and results                                         *)
(***************************************************************************)
\* a value of the DOM
JNull == [ type |-> "null" ]
JBool(b) == [ type |-> "bool", b |-> b ]
\* an integer is kept as its sign and its decimal digits without leading
\* zeros, so that all of long long fits
JInt(neg, mag) == [ type |-> "int", neg |-> neg, mag |-> mag ]
JNum(text) == [ type |-> "num", text |-> text ]
JStr(bytes) == [ type |-> "str", bytes |-> bytes ]
JArr(elems) == [ type |-> "array", elems |-> elems ]
JObj(members) == [ type |-> "object", members |-> members ]

\* the outcome of a parsing function: a value and the new pos, or the
\* exception thrown (its class and message)
Ok(pos, val) == [ ok |-> TRUE, pos |-> pos, val |-> val, cls |-> "", msg |-> "" ]
Fail(cls, msg) == [ ok |-> FALSE, pos |-> 0, val |-> JNull, cls |-> cls, msg |-> msg ]
\* JSONValueRef ( nullptr ), returned by parse when only whitespace is left
NullRef(pos) == [ ok |-> TRUE, pos |-> pos, val |-> [ type |-> "nullptr" ],
                  cls |-> "", msg |-> "" ]

(***************************************************************************)
(* JSON parser: \u escapes and UTF-8                                       *)
(***************************************************************************)
\* std::stoi ( text, & index, 16 ): leading whitespace, a sign and a 0x prefix
\* are all accepted by strtol; ok is FALSE for std::invalid_argument
stoi16(text) ==
    LET i0 == first_nonspace(text, 0)
        signed == At(text, i0) = 43 \/ At(text, i0) = 45
        neg == At(text, i0) = 45
        i1 == IF signed THEN i0 + 1 ELSE i0
        prefixed == /\ At(text, i1) = 48
                    /\ toupper(At(text, i1 + 1)) = 88
                    /\ isxdigit(At(text, i1 + 2))
        i2 == IF prefixed THEN i1 + 2 ELSE i1
        n == xdigit_run(text, i2)
    IN  [ ok |-> n > 0, index |-> i2 + n, neg |-> neg,
          val |-> IF n > 0 THEN xdigits_val(text, i2, n) ELSE 0 ]

\* std::wstring_convert < codecvt_utf8 < char32_t > > :: to_bytes ( val )
to_bytes(val) ==
    IF val < 128 THEN << val >>
    ELSE IF val < 2048 THEN << 192 + (val \div 64), 128 + (val % 64) >>
    ELSE IF val < 65536
    THEN << 224 + (val \div 4096), 128 + ((val \div 64) % 64), 128 + (val % 64) >>
    ELSE << 240 + (val \div 262144), 128 + ((val \div 4096) % 64),
            128 + ((val \div 64) % 64), 128 + (val % 64) >>

\* hex_to_utf8: ok with the UTF-8 bytes, or the JSONException of the catch.
\* A negative value converts to an unsigned int above 0x10FFFF, which
\* to_bytes refuses with std::range_error.
hex_to_utf8(text) ==
    LET r == stoi16(text)
    IN  IF ~ r.ok \/ r.index # 4 \/ (r.neg /\ r.val > 0)
        THEN [ ok |-> FALSE, utf8 |-> << >> ]
        ELSE [ ok |-> TRUE, utf8 |-> to_bytes(r.val) ]

\* the number of significant bits of leading, 1 .. 127
bit_length(leading) ==
    CHOOSE n \in 1 .. 7 : leading >= 2 ^ (n - 1) /\ leading < 2 ^ n

\* __builtin_clz ( ~ cp [ i ] ) - 24 for the signed byte b, b not 0xFF: a zero
\* byte complements to 0xFFFFFFFF, which has no leading zero
char_len(b) == IF b = 0 THEN 0 - 24 ELSE 8 - bit_length(255 - b)

\* a test of the continuation bytes that lets every byte pass
continuation_unchecked(text, i, n) == TRUE

\* the continuation bytes i + 1 .. i + n - 1 all match 10xxxxxx
continuation_ok(text, i, n) ==
    \A j \in 1 .. n - 1 : At(text, i + j) \div 64 = 2

\* test_wellformed_utf8 from offset i on: TRUE when it returns, FALSE when it
\* throws "malformed UTF-8"
RECURSIVE wellformed_from(_, _)
wellformed_from(text, i) ==
    IF i >= Len(text) THEN TRUE
    ELSE LET b == text[i + 1]
         IN  IF b \in 1 .. 127 THEN wellformed_from(text, i + 1)
             ELSE IF b = 255 THEN FALSE
             ELSE IF char_len(b) < 2 \/ char_len(b) > 6 THEN FALSE
             ELSE IF i + char_len(b) > Len(text) THEN FALSE
             ELSE IF ~ continuation_ok(text, i, char_len(b)) THEN FALSE
             ELSE wellformed_from(text, i + char_len(b))

test_wellformed_utf8(text) == wellformed_from(text, 0)

(***************************************************************************)
(* JSON parser: strings                                                    *)
(***************************************************************************)
\* the byte a one-character escape stands for, 0 when it is none
escape_byte(c) ==
    CASE c = 34 -> 34  [] c = 92 -> 92  [] c = 47 -> 47  [] c = 98 -> 8
      [] c = 102 -> 12 [] c = 110 -> 10 [] c = 114 -> 13 [] c = 116 -> 9
      [] OTHER -> 0

\* the while ( 1 ) loop of parseString: str is the text decoded so far, pos
\* the offset reached and esc the offset of the next '\\' or '"'
RECURSIVE parseString_loop(_, _, _, _, _)
parseString_loop(lim, text, str, pos, esc) ==
    IF Len(str) + (esc - pos) > lim.string_size
    THEN Fail("JSONException", "string size exceeds allowed limit")
    ELSE LET str1 == str \o substr(text, pos, esc - pos)
             c == At(text, esc + 1)
         IN  IF At(text, esc) # 92
             THEN \* the closing quote
                  IF Len(str1) > lim.string_size
                  THEN Fail("JSONException", "string size exceeds allowed limit")
                  ELSE IF ~ test_wellformed_utf8(str1)
                  THEN Fail("JSONException", "malformed UTF-8")
                  ELSE Ok(esc + 1, JStr(str1))
             ELSE IF c = 117
             THEN LET h == hex_to_utf8(substr(text, esc + 2, 4))
                      next == esc + 6
                  IN  IF ~ h.ok
                      THEN Fail("JSONException", "Invalid \\u escape sequence")
                      ELSE IF find_first_of_esc(text, next) = npos
                      THEN Fail("JSONException", "Invalid end of string format")
                      ELSE parseString_loop(lim, text, str1 \o h.utf8, next,
                                            find_first_of_esc(text, next))
             ELSE IF escape_byte(c) = 0
             THEN Fail("JSONException", "Invalid escape character")
             ELSE IF find_first_of_esc(text, esc + 2) = npos
             THEN Fail("JSONException", "Invalid end of string format")
             ELSE parseString_loop(lim, text, Append(str1, escape_byte(c)),
                                   esc + 2, find_first_of_esc(text, esc + 2))

\* JSON::parseString, pos at the opening quote
parseString(lim, text, pos) ==
    IF find_first_of_esc(text, pos + 1) = npos
    THEN Fail("JSONException", "Invalid ending of string format")
    ELSE parseString_loop(lim, text, << >>, pos + 1,
                          find_first_of_esc(text, pos + 1))

(***************************************************************************)
(* JSON parser: numbers                                                    *)
(***************************************************************************)
\* the decimal digits of n bytes from offset pos on, as numbers 0 .. 9
digits_of(text, pos, n) == [ i \in 1 .. n |-> text[pos + i] - 48 ]

\* a digit sequence without its leading zeros; << 0 >> for zero
RECURSIVE strip_zeros(_)
strip_zeros(ds) ==
    IF Len(ds) > 1 /\ ds[1] = 0 THEN strip_zeros(Tail(ds)) ELSE ds

\* a > b for digit sequences without leading zeros
RECURSIVE dec_greater(_, _)
dec_greater(a, b) ==
    IF Len(a) # Len(b) THEN Len(a) > Len(b)
    ELSE IF a = << >> THEN FALSE
    ELSE IF a[1] # b[1] THEN a[1] > b[1]
    ELSE dec_greater(Tail(a), Tail(b))

\* the digits of LLONG_MAX, 9223372036854775807
LLONG_MAX_digits == << 9, 2, 2, 3, 3, 7, 2, 0, 3, 6, 8, 5, 4, 7, 7, 5, 8, 0, 7 >>
\* the digits of the magnitude of LLONG_MIN
LLONG_MIN_digits == << 9, 2, 2, 3, 3, 7, 2, 0, 3, 6, 8, 5, 4, 7, 7, 5, 8, 0, 8 >>

\* a range test that lets every magnitude pass
stoll_never_out_of_range(neg, mag) == FALSE

\* is the magnitude mag, with the sign neg, outside long long
stoll_out_of_range(neg, mag) ==
    dec_greater(mag, IF neg THEN LLONG_MIN_digits ELSE LLONG_MAX_digits)

\* std::stoll ( num_str, & num_len ) on a text that starts with an optional
\* '-' and at least one digit: the conversion stops at the first non-digit
stoll(num_str) ==
    LET neg == At(num_str, 0) = 45
        s == IF neg THEN 1 ELSE 0
        n == digit_run(num_str, s)
        mag == strip_zeros(digits_of(num_str, s, n))
    IN  [ out_of_range |-> stoll_out_of_range(neg, mag),
          num_len |-> s + n,
          val |-> JInt(neg /\ mag # << 0 >>, mag) ]

\* the value of a digit sequence of at most five digits, 100000 beyond
RECURSIVE small_val(_)
small_val(ds) ==
    IF Len(ds) > 5 THEN 100000
    ELSE IF ds = << >> THEN 0
    ELSE 10 * small_val(SubSeq(ds, 1, Len(ds) - 1)) + ds[Len(ds)]

\* the number of leading zeros of a digit sequence
RECURSIVE leading_zeros(_)
leading_zeros(ds) ==
    IF ds # << >> /\ ds[1] = 0 THEN 1 + leading_zeros(Tail(ds)) ELSE 0

\* the decimal exponent range of long double (LDBL_MAX_10_EXP; the least
\* normal exponent is its negative plus one)
LDBL_MAX_10_EXP == 4932

\* std::stold ( num_str, & num_len ) on a text that starts with an optional
\* '-' and at least one digit.  strtold takes the digits, a '.' with the
\* digits after it, and an exponent only when it has a digit.  It reports
\* ERANGE, which stold turns into std::out_of_range, when the value leaves
\* the exponent range of long double (decided here on the decimal exponent
\* of the leading digit).
stold(num_str) ==
    LET s == IF At(num_str, 0) = 45 THEN 1 ELSE 0
        n == digit_run(num_str, s)
        dot == At(num_str, s + n) = 46
        k == IF dot THEN digit_run(num_str, s + n + 1) ELSE 0
        p == s + n + (IF dot THEN 1 + k ELSE 0)
        esign == At(num_str, p + 1) = 43 \/ At(num_str, p + 1) = 45
        q == IF esign THEN p + 2 ELSE p + 1
        m == IF toupper(At(num_str, p)) = 69 THEN digit_run(num_str, q) ELSE 0
        mant == digits_of(num_str, s, n)
                  \o (IF dot THEN digits_of(num_str, s + n + 1, k) ELSE << >>)
        z == leading_zeros(mant)
        e == IF m = 0 THEN 0
             ELSE LET v == small_val(strip_zeros(digits_of(num_str, q, m)))
                  IN  IF At(num_str, p + 1) = 45 THEN 0 - v ELSE v
        adj == (n - 1 - z) + e
    IN  [ out_of_range |-> /\ z < Len(mant)
                           /\ (adj > LDBL_MAX_10_EXP \/ adj < 1 - LDBL_MAX_10_EXP),
          num_len |-> IF m > 0 THEN q + m ELSE p ]

\* the scan of parseNumber from the first digit on: the offset reached and
\* is_float
scan_number(text, pos0) ==
    LET p1 == IF At(text, pos0) = 48 THEN pos0 + 1
              ELSE pos0 + digit_run(text, pos0)
        \* case '.': the digits after the point
        k == digit_run(text, p1 + 1)
        p2 == p1 + 1 + k
        \* case 'E', 'e' (or the fall through): the marker is at offset pe
        exp_at(pe) ==
            LET ps == IF At(text, pe + 1) = 43 \/ At(text, pe + 1) = 45
                      THEN pe + 2 ELSE pe + 1
            IN  [ pos |-> ps + digit_run(text, ps),
                  digits |-> digit_run(text, ps) > 0 ]
    IN  IF At(text, p1) = 46
        THEN IF k = 0 THEN [ pos |-> p2, is_float |-> FALSE ]
             ELSE IF toupper(At(text, p2)) # 69
             THEN [ pos |-> p2, is_float |-> TRUE ]
             ELSE [ pos |-> exp_at(p2).pos, is_float |-> TRUE ]
        ELSE IF At(text, p1) = 69 \/ At(text, p1) = 101
        THEN [ pos |-> exp_at(p1).pos, is_float |-> exp_at(p1).digits ]
        ELSE [ pos |-> p1, is_float |-> FALSE ]

\* JSON::parseNumber, pos at a digit or at '-'
parseNumber(lim, text, pos) ==
    LET start == pos
        pos0 == IF At(text, pos) = 45 THEN pos + 1 ELSE pos
        sc == scan_number(text, pos0)
        num_str == substr(text, start, sc.pos - start)
        i == stoll(num_str)
        f == stold(num_str)
    IN  IF ~ isdigit(At(text, pos0))
        THEN Fail("JSONException", "Expected: digit")
        ELSE IF sc.pos - start > lim.numeral_length
        THEN Fail("JSONException", "numeral length exceeds allowed limit")
        ELSE IF ~ sc.is_float /\ ~ i.out_of_range
        THEN Ok(start + i.num_len, i.val)
        ELSE IF f.out_of_range
        THEN Fail("std::out_of_range", "stold")
        ELSE IF f.num_len > lim.numeral_length
        THEN Fail("JSONException", "numeral size exceeds allowed limit")
        ELSE Ok(start + f.num_len, JNum(substr(num_str, 0, f.num_len)))

(***************************************************************************)
(* JSON parser: literals, arrays, objects                                  *)
(***************************************************************************)
\* JSON::parseNull, pos at 'n'
parseNull(text, pos) ==
    IF ~ compare_eq(text, pos, Str(<< "n", "u", "l", "l" >>))
    THEN Fail("JSONException", "Expected keyword: 'null'")
    ELSE IF pos + 4 < Len(text) /\ isalnum(At(text, pos + 4))
    THEN Fail("JSONException", "Expected keyword: 'null'")
    ELSE Ok(pos + 4, JNull)

\* JSON::parseBoolean, pos at 'f' or 't'
parseBoolean(text, pos) ==
    LET is_false == compare_eq(text, pos, Str(<< "f", "a", "l", "s", "e" >>))
        is_true == compare_eq(text, pos, Str(<< "t", "r", "u", "e" >>))
        next == IF is_false THEN pos + 5 ELSE pos + 4
    IN  IF ~ is_false /\ ~ is_true
        THEN Fail("JSONException", "Expected keyword: 'true' or 'false'")
        ELSE IF next < Len(text) /\ isalnum(At(text, next))
        THEN Fail("JSONException", "Expected keyword: 'true' or 'false'")
        ELSE Ok(next, JBool(is_true /\ ~ is_false))

\* test_depth: the incremented depth exceeds the limit
test_depth_throws(lim, depth) == depth + 1 > lim.recursion_depth

\* JSONObject::count after addValue: the member names are unique
has_member(members, name) ==
    \E i \in 1 .. Len(members) : members[i].name = name

\* the size test of parseArray after appendValue
array_too_long(lim, dl, count) == count > dl.array_elem_count

\* the size test of parseObject after addValue
object_too_big(lim, dl, count) == count > dl.object_mbr_count

RECURSIVE parse(_, _, _, _, _)
RECURSIVE parseArray_loop(_, _, _, _, _, _)
RECURSIVE parseObject_loop(_, _, _, _, _, _)

\* the end of parseArray: pos is where the element loop stopped
parseArray_end(text, pos, array) ==
    IF pos = npos \/ At(text, pos) # 93
    THEN Fail("JSONException", "Excpected: ']'")
    ELSE Ok(pos + 1, JArr(array))

\* parseArray after an element was appended: q is the result of the
\* skip_whitespace that looks for ','
parseArray_next(lim, dl, text, depth, array, q) ==
    IF q = npos \/ At(text, q) # 44
    THEN parseArray_end(text, q, array)
    ELSE parseArray_loop(lim, dl, text, q, depth, array)

\* parseArray with the element v that parse returned
parseArray_elem(lim, dl, text, depth, array, v) ==
    IF ~ v.ok THEN v
    ELSE IF v.val.type = "nullptr"
    THEN Fail("JSONException", "Failed to create JSON object")
    ELSE IF array_too_long(lim, dl, Len(array) + 1)
    THEN Fail("JSONException", "Array element count exceeds limit")
    ELSE parseArray_next(lim, dl, text, depth, Append(array, v.val),
                         skip_whitespace(text, v.pos))

\* parseArray at p, the first byte after '[' or ',' that is no whitespace
parseArray_at(lim, dl, text, depth, array, p) ==
    IF p = npos THEN Fail("JSONException", "Expected: ']'")
    ELSE IF At(text, p) = 93 THEN parseArray_end(text, p, array)
    ELSE parseArray_elem(lim, dl, text, depth, array,
                         parse(lim, dl, text, p, depth))

\* the while ( 1 ) loop of parseArray: pos at '[' or at ','
parseArray_loop(lim, dl, text, pos, depth, array) ==
    parseArray_at(lim, dl, text, depth, array, skip_whitespace(text, pos + 1))

\* JSON::parseArray, pos at '['
parseArray(lim, dl, text, pos, depth) ==
    parseArray_loop(lim, dl, text, pos, depth, << >>)

\* the end of parseObject: pos is where the member loop stopped
parseObject_end(text, pos, members) ==
    IF pos = npos \/ At(text, pos) # 125
    THEN Fail("JSONException", "Expected: '}'")
    ELSE Ok(pos + 1, JObj(members))

\* parseObject after a member was added: q is the result of the
\* skip_whitespace that looks for ','
parseObject_next(lim, dl, text, depth, members, q) ==
    IF q = npos \/ At(text, q) # 44
    THEN parseObject_end(text, q, members)
    ELSE parseObject_loop(lim, dl, text, q, depth, members)

\* parseObject with the member name and the value v that parse returned
parseObject_value(lim, dl, text, depth, members, name, v) ==
    IF ~ v.ok THEN v
    ELSE IF v.val.type = "nullptr"
    THEN Fail("JSONException", "Failed to create JSON object")
    ELSE IF has_member(members, name)
    THEN Fail("JSONException", "duplicate member name")
    ELSE IF object_too_big(lim, dl, Len(members) + 1)
    THEN Fail("JSONException", "Array element count exceeds limit")
    ELSE parseObject_next(lim, dl, text, depth,
                          Append(members, [ name |-> name, val |-> v.val ]),
                          skip_whitespace(text, v.pos))

\* parseObject with the member name that parseString returned and c, the
\* result of the skip_whitespace that looks for ':'
parseObject_colon(lim, dl, text, depth, members, name, c) ==
    IF c = npos \/ At(text, c) # 58
    THEN Fail("JSONException", "Expected: ':'")
    ELSE parseObject_value(lim, dl, text, depth, members, name,
                           parse(lim, dl, text, c + 1, depth))

\* parseObject with the outcome of parseString for the member name
parseObject_name(lim, dl, text, depth, members, name) ==
    IF ~ name.ok THEN name
    ELSE parseObject_colon(lim, dl, text, depth, members, name.val.bytes,
                           skip_whitespace(text, name.pos))

\* parseObject at p, the first byte after '{' or ',' that is no whitespace
parseObject_at(lim, dl, text, depth, members, p) ==
    IF p = npos THEN Fail("JSONException", "Expected: '}'")
    ELSE IF At(text, p) = 125 THEN parseObject_end(text, p, members)
    ELSE IF At(text, p) # 34 THEN Fail("JSONException", "Expected: 'name' ")
    ELSE parseObject_name(lim, dl, text, depth, members,
                          parseString(lim, text, p))

\* the while ( 1 ) loop of parseObject: pos at '{' or at ','
parseObject_loop(lim, dl, text, pos, depth, members) ==
    parseObject_at(lim, dl, text, depth, members,
                   skip_whitespace(text, pos + 1))

\* JSON::parseObject, pos at '{'
parseObject(lim, dl, text, pos, depth) ==
    IF test_depth_throws(lim, depth)
    THEN Fail("JSONException", "parsing recursion exceeds maximum depth")
    ELSE parseObject_loop(lim, dl, text, pos, depth + 1, << >>)

\* parse at p, the result of its skip_whitespace
parse_at(lim, dl, text, p, depth, c) ==
    IF c = 123 THEN parseObject(lim, dl, text, p, depth)
    ELSE IF c = 91 THEN parseArray(lim, dl, text, p, depth)
    ELSE IF c = 34 THEN parseString(lim, text, p)
    ELSE IF c = 102 \/ c = 116 THEN parseBoolean(text, p)
    ELSE IF c = 110 THEN parseNull(text, p)
    ELSE IF c = 45 \/ isdigit(c) THEN parseNumber(lim, text, p)
    ELSE Fail("JSONException", "Invalid JSON format")

\* JSON::parse ( lim, json, pos, depth ): one value of any type
parse(lim, dl, text, pos, depth) ==
    IF skip_whitespace(text, pos) = npos THEN NullRef(npos)
    ELSE parse_at(lim, dl, text, skip_whitespace(text, pos), depth,
                  At(text, skip_whitespace(text, pos)))

\* a test after the top-level value that lets everything pass
trailing_bytes_ignored(text, pos) == FALSE

\* the test after the top-level value: bytes are left in the text
trailing_bytes(text, pos) == pos < Len(text)

\* the end of the top-level functions: v is the top-level value
parse_finish(text, v) ==
    IF ~ v.ok THEN v
    ELSE IF trailing_bytes(text, v.pos)
    THEN Fail("MalformedJSON", "Trailing byes in JSON text")
    ELSE v

\* JSON::parse ( lim, json ) at p, the result of its skip_whitespace
JSON_parse_at(lim, dl, text, p) ==
    IF p = npos THEN Fail("MalformedJSON", "Expected: '{' or '['")
    ELSE IF At(text, p) = 123
    THEN parse_finish(text, parseObject(lim, dl, text, p, 0))
    ELSE IF At(text, p) = 91
    THEN parse_finish(text, parseArray(lim, dl, text, p, 0))
    ELSE Fail("MalformedJSON", "Expected: '{' or '['")

\* JSON::parse ( lim, json ): a whole document, an object or an array
JSON_parse(lim, dl, text) ==
    IF text = << >> THEN Fail("MalformedJSON", "Empty JSON source")
    ELSE IF Len(text) > lim.json_string_size
    THEN Fail("JSONLimitViolation", "JSON source size exceeds allowed size limit")
    ELSE JSON_parse_at(lim, dl, text, skip_whitespace(text, 0))

\* JSON::parseObject ( lim, json ) at p, the result of its skip_whitespace
JSON_parseObject_at(lim, dl, text, p) ==
    IF p = npos THEN Fail("MalformedJSON", "Expected: '{'")
    ELSE IF At(text, p) = 123
    THEN parse_finish(text, parseObject(lim, dl, text, p, 0))
    ELSE Fail("JSONException", "Expected: '{'")

\* JSON::parseObject ( lim, json ): a whole document, an object
JSON_parseObject(lim, dl, text) ==
    IF text = << >> THEN Fail("MalformedJSON", "Empty JSON source")
    ELSE IF Len(text) > lim.json_string_size
    THEN Fail("JSONLimitViolation", "JSON source size exceeds allowed size limit")
    ELSE JSON_parseObject_at(lim, dl, text, skip_whitespace(text, 0))

(***************************************************************************)
(* JSON parser: the documents and limits the parser is run on              *)
(***************************************************************************)
\* the deepest nesting of containers in a generated document
MaxNest == 3
\* the largest number of elements or members in a generated container
MaxElems == 3
\* the largest length of a generated numeral
MaxNumeralLen == 4
\* the largest recursion_depth a caller supplies
MaxDepthLim == 2
\* the largest element and member count a caller supplies
MaxCountLim == 2

\* a Limits value
Limits(size, depth, numeral, string, elems, mbrs) ==
    [ json_string_size |-> size, recursion_depth |-> depth,
      numeral_length |-> numeral, string_size |-> string,
      array_elem_count |-> elems, object_mbr_count |-> mbrs ]

\* limits no generated document reaches
WideLimits == Limits(4194304, 32, 256, 65536, 4096, 256)

RECURSIVE Cat(_)
\* the concatenation of a sequence of texts
Cat(ts) == IF ts = << >> THEN << >> ELSE ts[1] \o Cat(Tail(ts))

\* containers nested as kinds says, outermost first: "a" an array, "o" an
\* object whose one member "a" holds the next level
RECURSIVE Nest(_)
Nest(kinds) ==
    IF kinds = << >> THEN << >>
    ELSE IF kinds[1] = "a"
    THEN Str(<< "[" >>) \o Nest(Tail(kinds)) \o Str(<< "]" >>)
    ELSE IF Len(kinds) = 1 THEN Str(<< "{", "}" >>)
    ELSE Str(<< "{", "\"", "a", "\"", ":" >>) \o Nest(Tail(kinds))
           \o Str(<< "}" >>)

NestDocs ==
    { Nest(k) : k \in UNION { [ 1 .. d -> { "a", "o" } ] : d \in 1 .. MaxNest } }

\* the names of generated members
MemberNames == << "a", "b", "e", "f", "l", "n" >>

\* n elements (array) or members (object) separated by sep, with the
\* text tail between the last of them and the closing bracket
ListBody(is_obj, n, sep) ==
    Cat([ i \in 1 .. n |->
            (IF i > 1 THEN sep ELSE << >>)
            \o (IF is_obj
                THEN Str(<< "\"", MemberNames[i], "\"", ":", "1" >>)
                ELSE Str(<< "1" >>)) ])

\* one array or object of n elements or members
ListDoc(is_obj, n, sep, tail) ==
    (IF is_obj THEN Str(<< "{" >>) ELSE Str(<< "[" >>))
      \o ListBody(is_obj, n, sep) \o tail
      \o (IF is_obj THEN Str(<< "}" >>) ELSE Str(<< "]" >>))

ListDocs ==
    { ListDoc(is_obj, n, sep, tail) :
      is_obj \in BOOLEAN, n \in 0 .. MaxElems,
      sep \in { Str(<< "," >>), Str(<< " ", ",", " " >>) },
      tail \in { << >>, Str(<< "," >>), Str(<< ",", " " >>), Str(<< " " >>) } }

\* what may follow the top-level value
Suffixes ==
    { << >>, Str(<< " " >>), Str(<< "\n" >>), Str(<< "x" >>), Str(<< "]" >>),
      Str(<< " ", "1" >>), Str(<< "}" >>) }

StructDocs == { d \o t : d \in NestDocs \cup ListDocs, t \in Suffixes }

\* every text of length 1 .. n over the characters cs
Texts(cs, n) ==
    UNION { { Str(t) : t \in [ 1 .. k -> cs ] } : k \in 1 .. n }

\* one candidate numeral as the only element of an array
NumeralTexts ==
    Texts({ "0", "1", "-", ".", "e" }, MaxNumeralLen)
    \cup
    { Str(<< "9", "2", "2", "3", "3", "7", "2", "0", "3", "6", "8", "5", "4", "7", "7", "5", "8", "0", "7" >>),
      Str(<< "9", "2", "2", "3", "3", "7", "2", "0", "3", "6", "8", "5", "4", "7", "7", "5", "8", "0", "8" >>),
      Str(<< "-", "9", "2", "2", "3", "3", "7", "2", "0", "3", "6", "8", "5", "4", "7", "7", "5", "8", "0", "8" >>),
      Str(<< "-", "9", "2", "2", "3", "3", "7", "2", "0", "3", "6", "8", "5", "4", "7", "7", "5", "8", "0", "9" >>),
      Str(<< "9", "9", "9", "9", "9", "9", "9", "9", "9", "9", "9", "9", "9", "9", "9", "9", "9", "9", "9", "9" >>),
      Str(<< "9", "9", "9", "9", "9", "9", "9", "9", "9", "9", "9", "9", "9", "9", "9", "9", "9", "9", "9", "9", "." >>),
      Str(<< "9", "9", "9", "9", "9", "9", "9", "9", "9", "9", "9", "9", "9", "9", "9", "9", "9", "9", "9", "9", "e" >>),
      Str(<< "0", "0" >>),
      Str(<< "1", ".", "5", "0" >>),
      Str(<< "1", ".", "5", "e", "+", "1" >>),
      Str(<< "1", ".", "5", "E", "-", "1" >>),
      Str(<< "1", "e", "+", "0", "2" >>),
      Str(<< "-", "1", ".", "0", "e", "1" >>),
      Str(<< "1", "0", "0", "e", "-", "2" >>),
      Str(<< "1", "e", "4", "9", "3", "2" >>),
      Str(<< "1", "e", "-", "4", "9", "3", "2" >>),
      Str(<< "1", "e", "9", "9", "9", "9", "9" >>),
      Str(<< "0", "e", "9", "9", "9", "9", "9" >>),
      Str(<< "1", "2", "3", "4", "5" >>),
      Str(<< "1", "e", "+" >>),
      Str(<< "1", ".", "5", "E" >>),
      Str(<< "1", ".", "5", "e", "+" >>) }

NumberDocs == { Str(<< "[" >>) \o n \o Str(<< "]" >>) : n \in NumeralTexts }

\* the characters tried after \u
EscapeChars == { "0", "1", "a", "A", "f", " ", "+", "-", "x" }

\* one string holding \u and up to four characters, in an array
EscapeDocs ==
    { Str(<< "[", "\"", "\\", "u" >>) \o x \o Str(<< "\"", "]" >>) :
      x \in { << >> } \cup Texts(EscapeChars, 4) }

\* the orders in which n members can be written
Orders(n) ==
    { f \in [ 1 .. n -> 1 .. n ] : \A i, j \in 1 .. n : f[i] = f[j] => i = j }

\* one object whose members are written in every order of their names
OrderDocs ==
    { Str(<< "{" >>)
        \o Cat([ i \in 1 .. n |->
                   (IF i > 1 THEN Str(<< "," >>) ELSE << >>)
                   \o Str(<< "\"", MemberNames[f[i]], "\"", ":", "1" >>) ])
        \o Str(<< "}" >>) :
      n \in 2 .. MaxElems, f \in Orders(MaxElems) }

\* the limits callers supply for the generated containers
CallerLimits ==
    { Limits(4194304, d, 256, 65536, c, c) :
      d \in 1 .. MaxDepthLim, c \in 1 .. MaxCountLim }

\* the process-wide defaults: the counts of Limits::Limits scaled to the
\* generated containers, below and above what the callers supply
DefaultLimits ==
    { Limits(4194304, 32, 256, 65536, c, c) : c \in { 1, MaxElems } }

NotParsed == [ op |-> "none", r |-> Fail("", "") ]

InitJSON ==
    /\ InitRegistry
    /\ ThreadsIdle
    /\ ObjIdle
    /\ JWKIdle
    /\ out = NotParsed
    /\ \/ /\ jtext \in StructDocs
          /\ jlim \in CallerLimits
          /\ default_limits \in DefaultLimits
       \/ /\ jtext \in NumberDocs \cup EscapeDocs \cup OrderDocs
          /\ jlim = WideLimits
          /\ default_limits = WideLimits

\* JSON::parse ( lim, json )
DoParse ==
    /\ out' = [ op |-> "parse", r |-> JSON_parse(jlim, default_limits, jtext) ]
    /\ UNCHANGED << regvars, mtvars, jtext, jlim, default_limits, extvars >>

\* JSON::parseObject ( lim, json )
DoParseObject ==
    /\ out' = [ op |-> "parseObject",
                r |-> JSON_parseObject(jlim, default_limits, jtext) ]
    /\ UNCHANGED << regvars, mtvars, jtext, jlim, default_limits, extvars >>

NextJSON == DoParse \/ DoParseObject

SpecJSON == InitJSON /\ [][NextJSON]_vars

(***************************************************************************)
(* JSON parser: properties                                                 *)
(***************************************************************************)
\* a call of parse or parseObject has returned or thrown
Parsed == out.op # "none"

\* a ',' of the text is followed, after optional whitespace, by ']' or '}'
HasTrailingComma(text) ==
    \E i \in 1 .. Len(text) :
        /\ text[i] = 44
        /\ At(text, first_nonspace(text, i)) \in { 93, 125 }

\* C5: the parser rejects a trailing comma: a text in which a ',' is
\* followed, after optional whitespace, by ']' or '}' makes parse fail.
C5_TrailingComma == (Parsed /\ HasTrailingComma(jtext)) => ~ out.r.ok

\* the number of brackets of kind cs among the first k bytes
Brackets(text, k, cs) == Cardinality({ i \in 1 .. k : text[i] \in cs })

\* the deepest nesting of containers in a text without strings that hold
\* brackets
NestingDepth(text) ==
    LET open(k) == Brackets(text, k, { 91, 123 }) - Brackets(text, k, { 93, 125 })
    IN  CHOOSE d \in 0 .. Len(text) :
            /\ \E k \in 0 .. Len(text) : open(k) = d
            /\ \A k \in 0 .. Len(text) : open(k) <= d

\* C6: parse fails for every document whose container nesting is deeper
\* than lim.recursion_depth, whether the containers are objects, arrays or
\* a mix of both.
C6_DepthChecked ==
    (Parsed /\ NestingDepth(jtext) > jlim.recursion_depth) => ~ out.r.ok

\* C7: with a caller-supplied lim, a container is rejected when it has more
\* than lim.array_elem_count elements or lim.object_mbr_count members and
\* is not rejected when it is within them, whatever the defaults are.
C7_CallerLimits ==
    \A is_obj \in BOOLEAN, n \in 0 .. MaxElems :
        ( /\ Parsed
          /\ jtext = ListDoc(is_obj, n, Str(<< "," >>), << >>)
          /\ (out.op = "parseObject" => is_obj) )
        => ( out.r.ok <=>
             n <= (IF is_obj THEN jlim.object_mbr_count
                   ELSE jlim.array_elem_count) )

\* the call recorded in out, made on another text
SameCall(text) ==
    IF out.op = "parse" THEN JSON_parse(jlim, default_limits, text)
    ELSE JSON_parseObject(jlim, default_limits, text)

\* the first k bytes of the text are a document the call accepts, so that
\* byte k closes the top-level value, and a byte that is no whitespace
\* follows
ClosedBefore(k) ==
    /\ SameCall(SubSeq(jtext, 1, k)).ok
    /\ \E i \in k + 1 .. Len(jtext) : ~ isspace(jtext[i])

\* C8: parse and parseObject fail with MalformedJSON whenever a byte that
\* is no whitespace follows the closing bracket of the top-level value; no
\* value is returned.
C8_TrailingBytes ==
    Parsed =>
        \A k \in 1 .. Len(jtext) - 1 :
            ClosedBefore(k) => (~ out.r.ok /\ out.r.cls = "MalformedJSON")

\* an empty array followed by a letter has been parsed and refused
C8_Witness ==
    /\ out.op = "parse"
    /\ jtext = Str(<< "[", "]", "x" >>)
    /\ out.r.cls = "MalformedJSON"

\* the bytes a numeral is written with
NumeralBytes == 48 .. 57 \cup { 43, 45, 46, 69, 101 }

\* parse has accepted an array whose only element is a numeral
NumeralAccepted ==
    /\ out.op = "parse"
    /\ out.r.ok
    /\ Len(jtext) >= 3
    /\ jtext[1] = 91
    /\ \A i \in 2 .. Len(jtext) - 1 : jtext[i] \in NumeralBytes
    /\ out.r.val.type = "array"
    /\ Len(out.r.val.elems) = 1
    /\ out.r.val.elems[1].type \in { "int", "num" }

\* the numeral as written in the source, and the value stored for it
Numeral == SubSeq(jtext, 2, Len(jtext) - 1)
Stored == out.r.val.elems[1]

\* the magnitude mag, with the sign neg, is that of a signed 64-bit integer
InRange(neg, mag) ==
    ~ dec_greater(mag, IF neg THEN LLONG_MIN_digits ELSE LLONG_MAX_digits)

\* the mathematical value of a numeral -?digits[.digits][(e|E)[+-]digits]:
\* is it an integer, and its sign and decimal digits when it is
NumeralValue(num) ==
    LET s == IF At(num, 0) = 45 THEN 1 ELSE 0
        n == digit_run(num, s)
        dot == At(num, s + n) = 46
        k == IF dot THEN digit_run(num, s + n + 1) ELSE 0
        p == s + n + (IF dot THEN 1 + k ELSE 0)
        q == IF At(num, p + 1) \in { 43, 45 } THEN p + 2 ELSE p + 1
        m == IF toupper(At(num, p)) = 69 THEN digit_run(num, q) ELSE 0
        e == IF m = 0 THEN 0
             ELSE LET v == small_val(strip_zeros(digits_of(num, q, m)))
                  IN  IF At(num, p + 1) = 45 THEN 0 - v ELSE v
        D == digits_of(num, s, n)
               \o (IF dot THEN digits_of(num, s + n + 1, k) ELSE << >>)
        P == n + e
        zero == \A i \in 1 .. Len(D) : D[i] = 0
        mag == IF zero THEN << 0 >>
               ELSE IF P > 60 THEN [ i \in 1 .. 60 |-> 9 ]
               ELSE strip_zeros([ i \in 1 .. P |->
                                    IF i <= Len(D) THEN D[i] ELSE 0 ])
    IN  [ is_int |-> zero \/ (P >= 1 /\ \A i \in P + 1 .. Len(D) : D[i] = 0),
          neg |-> s = 1 /\ ~ zero,
          mag |-> mag ]

\* C9 as stated: an accepted numeral whose value is an in-range signed
\* 64-bit integer is stored as an integer with that value; otherwise it is
\* stored as a number whose text is exactly the numeral as written.
C9_AsStated ==
    NumeralAccepted =>
        LET v == NumeralValue(Numeral)
        IN  IF v.is_int /\ InRange(v.neg, v.mag)
            THEN Stored = JInt(v.neg, v.mag)
            ELSE Stored = JNum(Numeral)

\* the numeral is an optional '-' and digits, with no fraction or exponent
PlainInteger(num) ==
    LET s == IF At(num, 0) = 45 THEN 1 ELSE 0
    IN  Len(num) > s /\ \A i \in s + 1 .. Len(num) : isdigit(num[i])

\* C9: an accepted numeral written as an optional '-' and digits, with no
\* fraction and no exponent, whose value is an in-range signed 64-bit
\* integer is stored as an integer with that value; every other accepted
\* numeral is stored as a number whose text is exactly the numeral as
\* written.
C9_Numerals ==
    NumeralAccepted =>
        LET s == IF At(Numeral, 0) = 45 THEN 1 ELSE 0
            mag == strip_zeros(digits_of(Numeral, s, Len(Numeral) - s))
        IN  IF PlainInteger(Numeral) /\ InRange(s = 1, mag)
            THEN Stored = JInt(s = 1 /\ mag # << 0 >>, mag)
            ELSE Stored = JNum(Numeral)

\* LLONG_MAX + 1 has been parsed and stored as a number with its text
C9_Witness ==
    /\ NumeralAccepted
    /\ Numeral = Str(<< "9", "2", "2", "3", "3", "7", "2", "0", "3", "6",
                        "8", "5", "4", "7", "7", "5", "8", "0", "8" >>)
    /\ Stored.type = "num"

\* the text opens an array and a string with \u
StartsWithEscape(text) ==
    /\ Len(text) >= 4
    /\ SubSeq(text, 1, 4) = Str(<< "[", "\"", "\\", "u" >>)

\* C10: the escape \u is accepted only when the four characters after it
\* are all hexadecimal digits; any other four characters, and fewer than
\* four, make parsing fail.
C10_FourHexDigits ==
    (Parsed /\ StartsWithEscape(jtext) /\ out.r.ok) =>
        \A i \in 4 .. 7 : isxdigit(At(jtext, i))

(***************************************************************************)
(* UTF-8 validation run on byte strings                                    *)
(***************************************************************************)
\* the largest length of a generated byte string
MaxBytes == 3

\* one byte of every kind the validation tells apart: NUL, ASCII,
\* continuation bytes, start bytes of 2 .. 6 bytes, 0xFE and 0xFF
ByteKinds == { 0, 65, 127, 128, 169, 191, 195, 224, 240, 248, 252, 254, 255 }

\* complete and truncated characters longer than MaxBytes
LongByteStrings ==
    { << 240, 169, 169, 169 >>, << 240, 169, 169, 65 >>,
      << 248, 128, 128, 128, 128 >>, << 248, 128, 128, 128 >>,
      << 252, 128, 128, 128, 128, 128 >>, << 252, 128, 128, 128, 128 >>,
      << 252, 128, 128, 128, 128, 128, 65 >>,
      << 65, 252, 191, 191, 191, 191, 191, 195, 169 >>,
      << 252, 128, 128, 128, 128, 195 >> }

ByteStrings ==
    { << >> } \cup LongByteStrings
      \cup UNION { [ 1 .. k -> ByteKinds ] : k \in 1 .. MaxBytes }

InitUTF8 ==
    /\ InitRegistry
    /\ ThreadsIdle
    /\ ObjIdle
    /\ JWKIdle
    /\ out = NotParsed
    /\ jtext \in ByteStrings
    /\ jlim = WideLimits
    /\ default_limits = WideLimits

\* test_wellformed_utf8 ( text ): it returns, or throws "malformed UTF-8"
DoTestUTF8 ==
    /\ out' = [ op |-> "test_wellformed_utf8",
                r |-> IF test_wellformed_utf8(jtext) THEN Ok(0, JNull)
                      ELSE Fail("JSONException", "malformed UTF-8") ]
    /\ UNCHANGED << regvars, mtvars, jtext, jlim, default_limits, extvars >>

NextUTF8 == DoTestUTF8

SpecUTF8 == InitUTF8 /\ [][NextUTF8]_vars

\* the number of leading 1-bits of a byte
LeadingOnes(b) ==
    IF b < 128 THEN 0 ELSE IF b < 192 THEN 1 ELSE IF b < 224 THEN 2
    ELSE IF b < 240 THEN 3 ELSE IF b < 248 THEN 4 ELSE IF b < 252 THEN 5
    ELSE IF b < 254 THEN 6 ELSE IF b < 255 THEN 7 ELSE 8

\* the bytes from index i on are a concatenation of units: one byte with
\* its high bit zero (the zero byte only when nul_ok), or a start byte with
\* 2 .. 6 leading 1-bits and then length - 1 bytes 10xxxxxx inside s
RECURSIVE Units(_, _, _)
Units(s, i, nul_ok) ==
    IF i > Len(s) THEN TRUE
    ELSE IF LeadingOnes(s[i]) = 0
    THEN (nul_ok \/ s[i] # 0) /\ Units(s, i + 1, nul_ok)
    ELSE /\ LeadingOnes(s[i]) \in 2 .. 6
         /\ i + LeadingOnes(s[i]) - 1 <= Len(s)
         /\ \A j \in 1 .. LeadingOnes(s[i]) - 1 : s[i + j] \in 128 .. 191
         /\ Units(s, i + LeadingOnes(s[i]), nul_ok)

TestedUTF8 == out.op = "test_wellformed_utf8"

\* C11 as stated: UTF-8 validation accepts a byte string if and only if it
\* is a concatenation of units, each one byte with its high bit zero or a
\* start byte with 2 .. 6 leading 1-bits followed by its continuation
\* bytes; every other string fails.
C11_AsStated == TestedUTF8 => (out.r.ok <=> Units(jtext, 1, TRUE))

\* C11: UTF-8 validation accepts a byte string if and only if it is a
\* concatenation of units, each one byte 0x01 .. 0x7F or a start byte with
\* 2 .. 6 leading 1-bits followed by exactly length - 1 bytes 10xxxxxx that
\* lie within the string; every other string, also one that holds the byte
\* 0x00, fails with malformed UTF-8.
C11_WellFormed ==
    TestedUTF8 =>
        /\ out.r.ok <=> Units(jtext, 1, FALSE)
        /\ ~ out.r.ok => out.r.msg = "malformed UTF-8"

\* a two-byte character has been accepted after an ASCII byte
C11_Witness ==
    /\ TestedUTF8
    /\ jtext = << 65, 195, 169 >>
    /\ out.r.ok

(***************************************************************************)
(* JSONObject: enumeration of the members                                  *)
(***************************************************************************)
\* std::less < std::string >: a < b, bytes compared as unsigned char
RECURSIVE string_less(_, _)
string_less(a, b) ==
    IF b = << >> THEN FALSE
    ELSE IF a = << >> THEN TRUE
    ELSE IF a[1] # b[1] THEN a[1] < b[1]
    ELSE string_less(Tail(a), Tail(b))

\* the keys of JSONObject::members in the order std::map iterates them
RECURSIVE map_order(_)
map_order(keys) ==
    IF keys = { } THEN << >>
    ELSE LET least == CHOOSE k \in keys :
                          \A o \in keys \ { k } : string_less(k, o)
         IN  << least >> \o map_order(keys \ { least })

\* JSONObject::getNames on a parsed object: the keys of members
getNames(obj) ==
    map_order({ obj.members[i].name : i \in 1 .. Len(obj.members) })

\* the names of the members in the order the parser met them in the text
SourceOrder(obj) == [ i \in 1 .. Len(obj.members) |-> obj.members[i].name ]

\* C12: a parsed object keeps its members in the order in which they
\* appear in the source text: getNames lists them in insertion order, for
\* every order of the keys in the input.
C12_InsertionOrder ==
    (Parsed /\ out.r.ok /\ out.r.val.type = "object")
        => getNames(out.r.val) = SourceOrder(out.r.val)

(***************************************************************************)
(* JSON and JWT objects: members, finality, the lock flag, validation      *)
(***************************************************************************)
\* the largest number of elements an array is grown to
MaxArray == 2
\* the largest time stamp of a claim
MaxTime == 2

\* the member names and values the callers use
Keys == { "a", "b" }
Vals == { 1, 2 }
\* the claims of a payload: registered ones and one private claim
ClaimKeys == { "iss", "exp", "nbf", "iat", "x" }
RegisteredClaims == { "iss", "sub", "aud", "exp", "nbf", "iat", "jti" }
Times == 0 .. MaxTime
Skews == -1 .. 1
StringInputs == { "alice" }

\* one entry of JSONObject::members, std::pair < bool, JSONValue * >
NoMember == [ present |-> FALSE, final |-> FALSE, val |-> 0 ]
Member(final, val) == [ present |-> TRUE, final |-> final, val |-> val ]

\* JSONObject::make ( )
NewObject ==
    [ cls |-> "JSONObject", members |-> [ k \in Keys |-> NoMember ],
      locked |-> FALSE ]

\* JSONArray::make ( )
NewArray == [ cls |-> "JSONArray", array |-> << >>, locked |-> FALSE ]

\* JWTFactory::JWTFactory ( )
NewFactory ==
    [ cls |-> "JWTFactory", iss |-> "", sub |-> "", aud |-> << >>,
      duration |-> 0 - 1, not_before |-> 0 - 1, dflt_skew |-> 0,
      locked |-> FALSE ]

\* JWTClaims::JWTClaims ( claims ) over a payload with the times exp, nbf
\* and iat, each absent (-1) or a time stamp
PayloadClaims(exp, nbf, iat) ==
    [ cls |-> "JWTClaims",
      members |-> [ k \in ClaimKeys |->
                      CASE k = "exp" /\ exp >= 0 -> Member(FALSE, exp)
                        [] k = "nbf" /\ nbf >= 0 -> Member(FALSE, nbf)
                        [] k = "iat" /\ iat >= 0 -> Member(FALSE, iat)
                        [] OTHER -> NoMember ],
      duration |-> 0, not_before |-> 0,
      have_duration |-> FALSE, have_not_before |-> FALSE,
      locked |-> FALSE ]

\* a call on this and its outcome: "returned" or the error kind raised
ObjCall(op, name, val, cur_time, skew, outcome) ==
    [ op |-> op, name |-> name, val |-> val, cur_time |-> cur_time,
      skew |-> skew, outcome |-> outcome ]

NoObjCall == ObjCall("none", "", 0, 0, 0, "returned")

InitObjects ==
    /\ InitRegistry
    /\ ThreadsIdle
    /\ JSONIdle
    /\ JWKIdle
    /\ JWTIdle
    /\ last = NoObjCall
    /\ this \in { NewObject, NewArray, NewFactory }
             \cup { PayloadClaims(e, n, i) :
                    e \in { 0 - 1 } \cup Times, n \in { 0 - 1, 1 },
                    i \in { 0 - 1, 1 } }

\* a mutator refused: the object stays as it is
Refused(op, name, val, kind) ==
    /\ last' = ObjCall(op, name, val, 0, 0, kind)
    /\ UNCHANGED this

\* a mutator that returned, leaving the object as next
Returned(op, name, val, next) ==
    /\ last' = ObjCall(op, name, val, 0, 0, "returned")
    /\ this' = next

\* a lock test that never finds the flag set
is_locked_never(obj) == FALSE

\* the test every mutator starts with
is_locked(obj) == obj.locked

\* a finality test that never finds a final entry
is_final_never(obj, name) == FALSE

\* the test of setValue and setFinalValue: the entry exists and is final
is_final(obj, name) == obj.members[name].present /\ obj.members[name].final

\* JSONObject::setValue and JSONObject::setFinalValue
SetMember(op, final, name, val) ==
    IF is_locked(this) THEN Refused(op, name, val, "Locked")
    ELSE IF is_final(this, name) THEN Refused(op, name, val, "FinalMember")
    ELSE Returned(op, name, val,
                  [ this EXCEPT !.members[name] = Member(final, val) ])

JSONObject_setValue ==
    /\ this.cls = "JSONObject"
    /\ \E name \in Keys, val \in Vals : SetMember("setValue", FALSE, name, val)
    /\ UNCHANGED << regvars, mtvars, jsonvars, jwkvars, jwtvars >>

JSONObject_setFinalValue ==
    /\ this.cls = "JSONObject"
    /\ \E name \in Keys, val \in Vals :
           SetMember("setFinalValue", TRUE, name, val)
    /\ UNCHANGED << regvars, mtvars, jsonvars, jwkvars, jwtvars >>

\* lock ( ) of JSONArray, JSONObject, JWTClaims and JWTFactory
Lock ==
    /\ last' = ObjCall("lock", "", 0, 0, 0, "returned")
    /\ this' = [ this EXCEPT !.locked = TRUE ]
    /\ UNCHANGED << regvars, mtvars, jsonvars, jwkvars, jwtvars >>

\* JSONArray::appendValue
JSONArray_appendValue ==
    /\ this.cls = "JSONArray"
    /\ \E val \in Vals :
           IF is_locked(this) THEN Refused("appendValue", "", val, "Locked")
           ELSE /\ Len(this.array) < MaxArray
                /\ Returned("appendValue", "", val,
                            [ this EXCEPT !.array = Append(@, val) ])
    /\ UNCHANGED << regvars, mtvars, jsonvars, jwkvars, jwtvars >>

\* JSONArray::setValue ( idx, elem ): a negative index is refused, the
\* elements between the end and idx become null (0)
JSONArray_setValue ==
    /\ this.cls = "JSONArray"
    /\ \E idx \in -1 .. MaxArray - 1, val \in Vals :
           IF is_locked(this) THEN Refused("setValue", "", val, "Locked")
           ELSE IF idx < 0 THEN Refused("setValue", "", val, "IndexOutOfRange")
           ELSE Returned("setValue", "", val,
                    [ this EXCEPT !.array =
                        [ i \in 1 .. (IF idx + 1 > Len(@) THEN idx + 1 ELSE Len(@)) |->
                            IF i = idx + 1 THEN val
                            ELSE IF i <= Len(@) THEN @[i] ELSE 0 ] ])
    /\ UNCHANGED << regvars, mtvars, jsonvars, jwkvars, jwtvars >>

\* a mutator of JWTFactory that stores val in field
FactorySet(op, field, val) ==
    IF is_locked(this) THEN Refused(op, field, 0, "Locked")
    ELSE /\ last' = ObjCall(op, field, 0, 0, 0, "returned")
         /\ this' = [ this EXCEPT ![field] = val ]

\* JWTFactory::setIssuer, setSubject, setDuration, setNotBefore and
\* setDefaultSkew
JWTFactory_set ==
    /\ this.cls = "JWTFactory"
    /\ \/ \E str \in StringInputs : FactorySet("setIssuer", "iss", str)
       \/ \E str \in StringInputs : FactorySet("setSubject", "sub", str)
       \/ \E n \in { 1 } : FactorySet("setDuration", "duration", n)
       \/ \E n \in { 1 } : FactorySet("setNotBefore", "not_before", n)
       \/ \E n \in { 1 } : FactorySet("setDefaultSkew", "dflt_skew", n)
    /\ UNCHANGED << regvars, mtvars, jsonvars, jwkvars, jwtvars >>

\* JWTFactory::addAudience
JWTFactory_addAudience ==
    /\ this.cls = "JWTFactory"
    /\ \E str \in StringInputs :
           IF is_locked(this) THEN Refused("addAudience", "aud", 0, "Locked")
           ELSE /\ Len(this.aud) < MaxArray
                /\ last' = ObjCall("addAudience", "aud", 0, 0, 0, "returned")
                /\ this' = [ this EXCEPT !.aud = Append(@, str) ]
    /\ UNCHANGED << regvars, mtvars, jsonvars, jwkvars, jwtvars >>

\* JWTClaims::setIssuer and JWTClaims::addClaim
JWTClaims_setClaim ==
    /\ this.cls = "JWTClaims"
    /\ \/ SetMember("setIssuer", FALSE, "iss", 1)
       \/ \E val \in Vals, final \in BOOLEAN :
              SetMember("addClaim", final, "x", val)
    /\ UNCHANGED << regvars, mtvars, jsonvars, jwkvars, jwtvars >>

\* JWTClaims::setDuration
JWTClaims_setDuration ==
    /\ this.cls = "JWTClaims"
    /\ \E n \in { 1 } :
           IF is_locked(this) THEN Refused("setDuration", "", n, "Locked")
           ELSE Returned("setDuration", "", n,
                    [ this EXCEPT !.duration = n, !.have_duration = TRUE ])
    /\ UNCHANGED << regvars, mtvars, jsonvars, jwkvars, jwtvars >>

\* an expiry test that still passes at cur_time = exp + skew
not_expired_inclusive(cur_time, exp, skew) == cur_time <= exp + skew

\* the expiry test of validate: cur_time < exp + skew
not_expired(cur_time, exp, skew) == cur_time < exp + skew

\* an nbf test that takes the skew off the current time
valid_yet_strict(cur_time, nbf, skew) == cur_time - skew >= nbf

\* the nbf test of validate: cur_time + skew >= nbf
valid_yet(cur_time, nbf, skew) == cur_time + skew >= nbf

\* the iat test of validate: iat <= cur_time + skew
issued_yet(cur_time, iat, skew) == iat <= cur_time + skew

\* the outcome of the time checks of validate, in the order exp, nbf, iat
validate_outcome(obj, cur_time, skew) ==
    LET m == obj.members
    IN  IF m["exp"].present /\ ~ not_expired(cur_time, m["exp"].val, skew)
        THEN "Expired"
        ELSE IF m["nbf"].present /\ ~ valid_yet(cur_time, m["nbf"].val, skew)
        THEN "NotYetValid"
        ELSE IF m["iat"].present /\ ~ issued_yet(cur_time, m["iat"].val, skew)
        THEN "IssuedInFuture"
        ELSE "returned"

\* a validate that marks no claim final
mark_final_none(obj) == obj

\* the registered claims that are present become final
mark_final(obj) ==
    [ obj EXCEPT !.members =
        [ k \in ClaimKeys |->
            IF k \in RegisteredClaims /\ @[k].present
            THEN Member(TRUE, @[k].val) ELSE @[k] ] ]

\* JWTClaims::validate ( cur_time, skew )
JWTClaims_validate ==
    /\ this.cls = "JWTClaims"
    /\ \E cur_time \in 0 .. MaxTime + 1, skew \in Skews :
           /\ last' = ObjCall("validate", "", 0, cur_time, skew,
                              validate_outcome(this, cur_time, skew))
           /\ this' = IF validate_outcome(this, cur_time, skew) = "returned"
                      THEN mark_final(this) ELSE this
    /\ UNCHANGED << regvars, mtvars, jsonvars, jwkvars, jwtvars >>

NextObjects ==
    \/ JSONObject_setValue
    \/ JSONObject_setFinalValue
    \/ JSONArray_appendValue
    \/ JSONArray_setValue
    \/ JWTFactory_set
    \/ JWTFactory_addAudience
    \/ JWTClaims_setClaim
    \/ JWTClaims_setDuration
    \/ JWTClaims_validate
    \/ Lock

SpecObjects == InitObjects /\ [][NextObjects]_vars

(***************************************************************************)
(* JSON and JWT objects: properties                                        *)
(***************************************************************************)
SetOps == { "setValue", "setFinalValue" }

\* the key k of this is stored and marked final
StoredFinal(k) == this.members[k].present /\ this.members[k].final

Mutators ==
    { "setValue", "setFinalValue", "appendValue", "setIssuer", "setSubject",
      "addAudience", "addClaim", "setDuration", "setNotBefore",
      "setDefaultSkew" }

C20_Expiry ==
    (this.cls = "JWTClaims" /\ last.op = "validate") =>
        ( last.outcome = "Expired" <=>
            /\ this.members["exp"].present
            /\ last.cur_time >= this.members["exp"].val + last.skew )

\* validate has failed with Expired at cur_time = exp + skew
C20_Witness ==
    /\ this.cls = "JWTClaims"
    /\ last.op = "validate"
    /\ last.outcome = "Expired"
    /\ last.cur_time = this.members["exp"].val + last.skew

\* the largest amount by which a skew is widened
MaxWiden == 2

\* C22: time validation is monotonic in skew: claims that pass the exp, nbf
\* and iat checks of validate ( cur_time, s ) pass them with every skew
\* s + d, d >= 0.
C22_SkewMonotonic ==
    (this.cls = "JWTClaims" /\ last.op = "validate"
        /\ last.outcome = "returned") =>
        \A d \in 0 .. MaxWiden :
            validate_outcome(this, last.cur_time, last.skew + d) = "returned"

\* claims with exp, nbf and iat have passed validate with a skew that a
\* smaller skew would not have passed
C22_Witness ==
    /\ this.cls = "JWTClaims"
    /\ last.op = "validate"
    /\ last.outcome = "returned"
    /\ \A k \in { "exp", "nbf", "iat" } : this.members[k].present
    /\ validate_outcome(this, last.cur_time, last.skew - 1) # "returned"

(***************************************************************************)
(* JWK: keys made from JSON text, from parameters and from PEM text        *)
(***************************************************************************)
\* the entries one PEM text holds
MaxPEMEntries == 2
\* the iterations of the scanning loop of parsePEM that are followed
MaxIter == 3

\* the members of a parsed JSONObject as its std :: map holds them
Props(obj) ==
    [ n \in { obj.members[i].name : i \in 1 .. Len(obj.members) } |->
        (CHOOSE m \in { obj.members[i] : i \in 1 .. Len(obj.members) } :
            m.name = n).val ]

\* JSONObject::make: no members
NoProps == [ n \in {} |-> JNull ]

\* JSONObject::exists
exists(props, name) == name \in DOMAIN props

\* JSONValue::makeString throws on bytes that are not well-formed UTF-8
makeString_throws(val) == ~ test_wellformed_utf8(val)

\* props -> setValueOrDelete ( name, JSONValue::makeString ( val ) )
setValueOrDelete(props, name, val) == MapPut(props, name, JStr(val))

\* the member names of a JWK
kty_mbr == Str(<< "k", "t", "y" >>)
kid_mbr == Str(<< "k", "i", "d" >>)
alg_mbr == Str(<< "a", "l", "g" >>)
use_mbr == Str(<< "u", "s", "e" >>)
crv_mbr == Str(<< "c", "r", "v" >>)
x_mbr == Str(<< "x" >>)
y_mbr == Str(<< "y" >>)
d_mbr == Str(<< "d" >>)

\* a JWK: its class and the props object it owns
Key(cls, props) == [ cls |-> cls, props |-> props ]
NoKey == Key("none", NoProps)

\* no PEM entry was decoded
NoEntry ==
    [ label |-> << >>, public |-> FALSE, pk |-> "none", exported |-> FALSE ]

\* the call that made a JWK last: what it was given, what it returned or
\* threw, and what it did with the props object it had made before it threw
JWKCall(op, arg, r, key, priv, entry, rel, inv) ==
    [ op |-> op, arg |-> arg, r |-> r, key |-> key, priv |-> priv,
      entry |-> entry, props_released |-> rel, props_invalidated |-> inv ]

NoJWKCall == JWKCall("none", << >>, Fail("", ""), NoKey, NoKey, NoEntry, FALSE, FALSE)

\* the step of a try block: either the key it made or the exception thrown
Made(cls, props) == [ ok |-> TRUE, key |-> Key(cls, props), r |-> Ok(0, JNull) ]
Thrown(cls, msg) == [ ok |-> FALSE, key |-> NoKey, r |-> Fail(cls, msg) ]

\* props -> getValue ( name ) . toString () of a member that is a string
getString(props, name) == props[name].bytes

\* the try block of JWK::parse
parse_kty(props) ==
    IF ~ exists(props, kty_mbr)
    THEN Thrown("JSONException", "member not found")
    ELSE LET kty_val == getString(props, kty_mbr)
         IN  IF kty_val = Str(<< "o", "c", "t" >>)
             THEN Made("HMAC_JWKey", props)
             ELSE IF kty_val = Str(<< "R", "S", "A" >>)
             THEN IF exists(props, d_mbr)
                  THEN Made("RSAPrivate_JWKey", props)
                  ELSE Made("RSAPublic_JWKey", props)
             ELSE IF kty_val = Str(<< "E", "S" >>)
             THEN IF exists(props, d_mbr)
                  THEN Made("EllipticCurvePrivate_JWKey", props)
                  ELSE Made("EllipticCurvePublic_JWKey", props)
             ELSE Thrown("JWTException", "bad kty value for JWK")

\* the kty values and the further members of the JWK texts
KtyInputs ==
    { << "o", "c", "t" >>, << "R", "S", "A" >>, << "E", "C" >>,
      << "E", "S" >>, << "x", "y", "z" >> }

JWKMembers ==
    << << "k", "i", "d" >>, << "a", "l", "g" >>, << "c", "r", "v" >>,
       << "x" >>, << "y" >>, << "d" >> >>

MemberSets == { {}, { 6 }, 1 .. 5, 1 .. 6, { 1, 2, 4, 5, 6 } }

\* "name":"value" with a one-character value
MemberText(name, val) ==
    Str(<< "\"" >>) \o Str(name) \o Str(<< "\"", ":", "\"" >>) \o Str(val)
        \o Str(<< "\"" >>)

\* the text of a JWK of the given kty with the members of the set ms
JWKDoc(kty_val, ms) ==
    Str(<< "{" >>) \o MemberText(<< "k", "t", "y" >>, kty_val)
        \o Cat([ i \in 1 .. Len(JWKMembers) |->
                   IF i \in ms
                   THEN Str(<< "," >>) \o MemberText(JWKMembers[i], << "a" >>)
                   ELSE << >> ])
        \o Str(<< "}" >>)

\* a JWK without kty, and a text that is not JSON
NoKtyDoc == Str(<< "{" >>) \o MemberText(<< "k", "i", "d" >>, << "a" >>) \o Str(<< "}" >>)
BadDoc == Str(<< "{", "\"", "k", "t", "y", "\"" >>)

JWKDocs ==
    { JWKDoc(k, ms) : k \in KtyInputs, ms \in MemberSets } \cup { NoKtyDoc, BadDoc }

\* the locals of parsePEM; it is not running
NoPEM ==
    [ pem_text |-> << >>, kid |-> << >>, i |-> 0, end |-> 0, start |-> npos,
      found |-> "none", pc |-> "idle" ]

\* no key was made yet: the calls that make a key from text or parameters
\* share no state, so each behaviour follows one of them
NoJWK == jwk = NoJWKCall /\ pem = NoPEM

\* JWK::parse ( json_text )
JWK_parse ==
    /\ NoJWK
    /\ \E json_text \in JWKDocs :
        LET p == JSON_parseObject(WideLimits, WideLimits, json_text)
            t == parse_kty(Props(p.val))
        IN  /\ jwk' = IF ~ p.ok
                      THEN JWKCall("parse", json_text, p, NoKey, NoKey, NoEntry,
                                   FALSE, FALSE)
                      ELSE JWKCall("parse", json_text, t.r, t.key, NoKey, NoEntry,
                                   ~ t.ok, FALSE)
            /\ UNCHANGED << regvars, mtvars, jsonvars, objvars, jwtvars, pem >>

\* the strings callers pass for curve, use, alg and kid
KeyStrings == { Str(<< "a" >>), << 255 >> }

\* EllipticCurvePrivate_JWKey::make ( curve, use, alg, kid )
EllipticCurvePrivate_make ==
    /\ NoJWK
    /\ \E kid_val \in KeyStrings :
        LET a == Str(<< "a" >>)
            props == setValueOrDelete(setValueOrDelete(setValueOrDelete(
                         setValueOrDelete(NoProps, kty_mbr, Str(<< "E", "C" >>)),
                         kid_mbr, kid_val), alg_mbr, a), use_mbr, a)
        IN  /\ jwk' = IF makeString_throws(kid_val)
                      THEN JWKCall("make", kid_val,
                                   Fail("JSONException", "malformed UTF-8"),
                                   NoKey, NoKey, NoEntry, TRUE, TRUE)
                      ELSE JWKCall("make", kid_val, Ok(0, JNull),
                                   Key("EllipticCurvePrivate_JWKey", props),
                                   NoKey, NoEntry, FALSE, FALSE)
            /\ UNCHANGED << regvars, mtvars, jsonvars, objvars, jwtvars, pem >>

\* derive copying the private member d as well
derive_members_with_d == << kty_mbr, kid_mbr, alg_mbr, crv_mbr, x_mbr, y_mbr, d_mbr >>

\* the members EllipticCurvePublic_JWKey::derive copies, in its order
derive_members == << kty_mbr, kid_mbr, alg_mbr, crv_mbr, x_mbr, y_mbr >>

\* the props of derive after its first n setValueOrDelete calls
RECURSIVE derive_props(_, _)
derive_props(priv, n) ==
    IF n = 0 THEN NoProps
    ELSE setValueOrDelete(derive_props(priv, n - 1), derive_members[n],
                          getString(priv.props, derive_members[n]))

\* EllipticCurvePrivate_JWKey::toEllipticCurvePublic on the key made last
EllipticCurvePublic_derive ==
    /\ jwk.r.ok
    /\ jwk.key.cls = "EllipticCurvePrivate_JWKey"
    /\ LET priv == jwk.key
           missing == { n \in 1 .. Len(derive_members) :
                          ~ exists(priv.props, derive_members[n]) }
       IN  jwk' = IF missing # {}
                  THEN JWKCall("derive", jwk.arg,
                               Fail("JSONException", "member not found"),
                               NoKey, priv, NoEntry, TRUE, TRUE)
                  ELSE JWKCall("derive", jwk.arg, Ok(0, JNull),
                               Key("EllipticCurvePublic_JWKey",
                                   derive_props(priv, Len(derive_members))),
                               priv, NoEntry, FALSE, FALSE)
    /\ UNCHANGED << regvars, mtvars, jsonvars, objvars, jwtvars, pem >>

\* pem_text . find ( word, pos )
find(text, word, pos) ==
    LET hits == { p \in pos .. Len(text) - Len(word) : compare_eq(text, p, word) }
    IN  IF hits = {} THEN npos ELSE CHOOSE p \in hits : \A q \in hits : p <= q

\* the delimiters parsePEM looks for
dashes == Str(<< "-", "-", "-", "-", "-" >>)
begin_str == dashes \o Str(<< "B", "E", "G", "I", "N", " " >>)
end_str == Str(<< "E", "N", "D", " " >>)
type_str == Str(<< " ", "K", "E", "Y" >>) \o dashes

\* the labels parsePEM supports, without their " KEY"
RSA_PRIVATE == Str(<< "R", "S", "A", " ", "P", "R", "I", "V", "A", "T", "E" >>)
EC_PRIVATE == Str(<< "E", "C", " ", "P", "R", "I", "V", "A", "T", "E" >>)
RSA_PUBLIC == Str(<< "R", "S", "A", " ", "P", "U", "B", "L", "I", "C" >>)
PUBLIC == Str(<< "P", "U", "B", "L", "I", "C" >>)

\* what one iteration of the loop of parsePEM finds
Scanned(kind, start, label) == [ kind |-> kind, start |-> start, label |-> label ]

\* parsePEM throws "invalid PEM text"
InvalidPEM(start) == Scanned("invalid", start, << >>)

\* the entry between its delimiters: is it a KEY entry with a known label
scan_type(text, start, label_start, key_start, end_label, end_in) ==
    LET type_start == key_start - 9
        label == IF type_start < label_start
                 THEN substr(text, label_start, Len(text))
                 ELSE substr(text, label_start, type_start - label_start)
    IN  IF substr(text, label_start, key_start - label_start)
               # substr(text, end_label, end_in - end_label)
        THEN InvalidPEM(start)
        ELSE IF ~ compare_eq(text, type_start, type_str)
        THEN Scanned("not a key", start, << >>)
        ELSE IF label \in { RSA_PRIVATE, EC_PRIVATE, RSA_PUBLIC, PUBLIC }
        THEN Scanned("key", start, label)
        ELSE Scanned("unsupported", start, label)

\* p is where the "-----" that closes the END line was found
scan_end(text, start, key_start, end_label, p) ==
    IF p = npos THEN InvalidPEM(start)
    ELSE scan_type(text, start, start + 11, key_start, end_label, p + 5)

\* p is where "END " was found
scan_end_label(text, start, key_start, p) ==
    IF p = npos THEN InvalidPEM(start)
    ELSE scan_end(text, start, key_start, p + 4, find(text, dashes, p + 4))

\* key_end is where the "-----" after the key was found
scan_key_end(text, start, key_start, key_end) ==
    IF key_end = npos THEN InvalidPEM(start)
    ELSE scan_end_label(text, start, key_start,
                        find(text, end_str, key_end + 5))

\* p is where the "-----" that closes the BEGIN line was found
scan_key_start(text, start, p) ==
    IF p = npos THEN InvalidPEM(start)
    ELSE scan_key_end(text, start, p + 5, find(text, dashes, p + 5))

\* start is where "-----BEGIN " was found
scan_start(text, start) ==
    IF start = npos THEN InvalidPEM(start)
    ELSE scan_key_start(text, start, find(text, dashes, start + 11))

\* one iteration of the loop of parsePEM up to the test of the label,
\* searching from the offset from
scan_entry(text, from) == scan_start(text, find(text, begin_str, from))

\* the key types mbedtls can make of an entry with the label: the status of
\* mbedtls_pk_parse_key or mbedtls_pk_parse_public_key and, when it is 0,
\* mbedtls_pk_get_type
Decodes(label) ==
    { "failed" } \cup
    (IF label \in { RSA_PRIVATE, RSA_PUBLIC } THEN { "MBEDTLS_PK_RSA" }
     ELSE IF label = EC_PRIVATE THEN { "MBEDTLS_PK_ECKEY" }
     ELSE { "MBEDTLS_PK_RSA", "MBEDTLS_PK_ECKEY" })

\* the key parameters writeKeyParameter stores for an RSA key
rsa_params(public) ==
    IF public THEN << Str(<< "n" >>), Str(<< "e" >>) >>
    ELSE << Str(<< "n" >>), Str(<< "e" >>), Str(<< "d" >>), Str(<< "p" >>),
            Str(<< "q" >>), Str(<< "d", "p" >>), Str(<< "d", "q" >>),
            Str(<< "q", "i" >>) >>

\* props after writeKeyParameter stored the first n parameters
RECURSIVE writeKeyParameters(_, _, _)
writeKeyParameters(props, params, n) ==
    IF n = 0 THEN props
    ELSE setValueOrDelete(writeKeyParameters(props, params, n - 1), params[n],
                          Str(<< "A" >>))

\* parsePEM after mbedtls decoded the entry as pk: the try block that
\* owns props
pem_key(public, pk, exported, kid_val) ==
    LET a == Str(<< "a" >>)
        props == setValueOrDelete(setValueOrDelete(setValueOrDelete(
                     NoProps, use_mbr, a), alg_mbr, a), kid_mbr, kid_val)
        params == rsa_params(public)
    IN  IF makeString_throws(kid_val)
        THEN Thrown("JSONException", "malformed UTF-8")
        ELSE IF pk = "MBEDTLS_PK_RSA"
        THEN IF ~ exported
             THEN Thrown("JWTException",
                         "mbedtls_rsa_export failed to obtain key parameters")
             ELSE Made(IF public THEN "RSAPublic_JWKey" ELSE "RSAPrivate_JWKey",
                       writeKeyParameters(
                           setValueOrDelete(props, kty_mbr, Str(<< "R", "S", "A" >>)),
                           params, Len(params)))
        ELSE Thrown("JWTException", "INTERNAL ERROR - unknown mbedtls key type")

\* the labels of the entries of the PEM texts
PEMLabels ==
    { RSA_PRIVATE \o Str(<< " ", "K", "E", "Y" >>),
      EC_PRIVATE \o Str(<< " ", "K", "E", "Y" >>),
      RSA_PUBLIC \o Str(<< " ", "K", "E", "Y" >>),
      PUBLIC \o Str(<< " ", "K", "E", "Y" >>),
      Str(<< "D", "S", "A", " ", "P", "R", "I", "V", "A", "T", "E", " ", "K", "E", "Y" >>),
      Str(<< "C", "E", "R", "T", "I", "F", "I", "C", "A", "T", "E" >>) }

\* a PEM entry: the BEGIN line, the base64 lines, the END line
PEMEntry(begin_label, end_label) ==
    begin_str \o begin_label \o dashes \o Str(<< "\n", "A", "A", "\n" >>)
        \o dashes \o end_str \o end_label \o dashes \o Str(<< "\n" >>)

\* the labels of entries parsePEM passes over
SkippedLabels ==
    { Str(<< "D", "S", "A", " ", "P", "R", "I", "V", "A", "T", "E", " ", "K", "E", "Y" >>),
      Str(<< "C", "E", "R", "T", "I", "F", "I", "C", "A", "T", "E" >>) }

\* an entry whose END line names another label than its BEGIN line
MismatchedEntry ==
    PEMEntry(RSA_PUBLIC \o Str(<< " ", "K", "E", "Y" >>),
             PUBLIC \o Str(<< " ", "K", "E", "Y" >>))

\* texts without a complete pair of BEGIN and END lines
NoPairTexts == { << >>, begin_str \o PUBLIC \o dashes }

\* k entries that are passed over, then the mismatched entry
MismatchTexts(k) ==
    { Cat([ i \in 1 .. k |-> PEMEntry(ls[i], ls[i]) ]) \o MismatchedEntry :
        ls \in [ 1 .. k -> SkippedLabels ] }

\* texts of one to MaxPEMEntries entries, and texts that are not PEM
PEMTexts ==
    { Cat([ i \in 1 .. n |-> PEMEntry(ls[i], ls[i]) ]) :
        n \in 1 .. MaxPEMEntries, ls \in [ 1 .. MaxPEMEntries -> PEMLabels ] }
    \cup NoPairTexts
    \cup UNION { MismatchTexts(k) : k \in 0 .. MaxPEMEntries - 1 }

InitJWK ==
    /\ InitRegistry
    /\ ThreadsIdle
    /\ JSONIdle
    /\ ObjIdle
    /\ jwk = NoJWKCall
    /\ pem = NoPEM

\* JWK::parsePEM ( pem_text, pwd, use, alg, kid ) entering its loop
JWK_parsePEM ==
    /\ NoJWK
    /\ \E pem_text \in PEMTexts, kid_val \in KeyStrings :
           pem' = [ pem_text |-> pem_text, kid |-> kid_val, i |-> 0, end |-> 0,
                    start |-> npos, found |-> "none", pc |-> "loop" ]
    /\ UNCHANGED << regvars, mtvars, jsonvars, objvars, jwtvars, jwk >>

\* one iteration of the loop of parsePEM: it throws, goes on to the next
\* iteration, or decodes the entry and returns or throws
parsePEM_loop ==
    /\ pem.pc = "loop"
    /\ pem.i < MaxIter
    /\ LET e == scan_entry(pem.pem_text, pem.end)
       IN  \/ /\ e.kind = "invalid"
              /\ jwk' = JWKCall("parsePEM", pem.pem_text,
                                Fail("JWTException", "invalid PEM text"),
                                NoKey, NoKey, NoEntry, FALSE, FALSE)
              /\ pem' = [ pem EXCEPT !.pc = "done", !.start = e.start,
                                     !.found = e.kind ]
           \/ /\ e.kind \in { "not a key", "unsupported" }
              /\ pem' = [ pem EXCEPT !.i = @ + 1, !.start = e.start,
                                     !.found = e.kind ]
              /\ UNCHANGED jwk
           \/ /\ e.kind = "key"
              /\ \E pk \in Decodes(e.label), exported \in BOOLEAN :
                     LET public == e.label \in { RSA_PUBLIC, PUBLIC }
                         entry == [ label |-> e.label, public |-> public,
                                    pk |-> pk, exported |-> exported ]
                         k == pem_key(public, pk, exported, pem.kid)
                     IN  jwk' = IF pk = "failed"
                                THEN JWKCall("parsePEM", pem.pem_text,
                                             Fail("JWTException",
                                                  "failed to parse PEM key"),
                                             NoKey, NoKey, entry, FALSE, FALSE)
                                ELSE JWKCall("parsePEM", pem.pem_text, k.r, k.key,
                                             NoKey, entry, ~ k.ok, ~ k.ok)
              /\ pem' = [ pem EXCEPT !.pc = "done", !.start = e.start,
                                     !.found = e.kind ]
    /\ UNCHANGED << regvars, mtvars, jsonvars, objvars, jwtvars >>

NextJWK ==
    \/ JWK_parse
    \/ EllipticCurvePrivate_make
    \/ EllipticCurvePublic_derive
    \/ JWK_parsePEM
    \/ parsePEM_loop

SpecJWK == InitJWK /\ [][NextJWK]_vars

(***************************************************************************)
(* JWK: properties                                                         *)
(***************************************************************************)
\* C15: JWK::parse dispatches on kty: "oct" makes an HMAC key, "RSA" an RSA
\* key and "EC" an elliptic curve key, private when the member d exists and
\* public otherwise; every other kty fails.
C15_Dispatch ==
    \A k \in KtyInputs, ms \in MemberSets :
        (jwk.op = "parse" /\ jwk.arg = JWKDoc(k, ms)) =>
            IF k = << "o", "c", "t" >>
            THEN jwk.r.ok /\ jwk.key.cls = "HMAC_JWKey"
            ELSE IF k = << "R", "S", "A" >>
            THEN /\ jwk.r.ok
                 /\ jwk.key.cls = IF 6 \in ms THEN "RSAPrivate_JWKey"
                                  ELSE "RSAPublic_JWKey"
            ELSE IF k = << "E", "C" >>
            THEN /\ jwk.r.ok
                 /\ jwk.key.cls = IF 6 \in ms THEN "EllipticCurvePrivate_JWKey"
                                  ELSE "EllipticCurvePublic_JWKey"
            ELSE ~ jwk.r.ok

\* C16: parsePEM skips an entry whose label does not end with " KEY" and
\* goes on to the entries after it: once it has skipped such an entry, the
\* offset it searches from is behind the start of that entry.
C16_SkipsOn ==
    (pem.pc = "loop" /\ pem.found = "not a key") => pem.end > pem.start

\* C17: when mbedtls decodes an entry with one of the four supported labels,
\* parsePEM returns a JWK of the decoded kind, RSA or EC, private or public,
\* that carries use, alg and kid, and does not throw.
C17_Decoded ==
    (/\ jwk.op = "parsePEM"
     /\ jwk.entry.pk \in { "MBEDTLS_PK_RSA", "MBEDTLS_PK_ECKEY" }
     /\ jwk.entry.exported
     /\ test_wellformed_utf8(pem.kid)) =>
        /\ jwk.r.ok
        /\ jwk.key.cls =
               IF jwk.entry.pk = "MBEDTLS_PK_RSA"
               THEN IF jwk.entry.public THEN "RSAPublic_JWKey"
                    ELSE "RSAPrivate_JWKey"
               ELSE IF jwk.entry.public THEN "EllipticCurvePublic_JWKey"
                    ELSE "EllipticCurvePrivate_JWKey"
        /\ { use_mbr, alg_mbr, kid_mbr } \subseteq DOMAIN jwk.key.props

\* C18: the public key derived from an EC private key has the kty, kid, alg,
\* crv, x and y of the private key and no member d.
C18_Derived ==
    (jwk.op = "derive" /\ jwk.r.ok) =>
        /\ jwk.key.cls = "EllipticCurvePublic_JWKey"
        /\ \A m \in { kty_mbr, kid_mbr, alg_mbr, crv_mbr, x_mbr, y_mbr } :
               /\ m \in DOMAIN jwk.key.props
               /\ jwk.key.props[m] = jwk.priv.props[m]
        /\ d_mbr \notin DOMAIN jwk.key.props

\* a public key was derived from a private key that holds d
C18_Witness ==
    /\ jwk.op = "derive"
    /\ jwk.r.ok
    /\ jwk.priv.cls = "EllipticCurvePrivate_JWKey"
    /\ d_mbr \in DOMAIN jwk.priv.props

\* C19: a call that makes a JWK and throws after it made its props object
\* invalidates the props object before it releases it.
C19_Invalidated ==
    (jwk.op # "none" /\ ~ jwk.r.ok /\ jwk.props_released) =>
        jwk.props_invalidated

(***************************************************************************)
(* JWT: decoding a compact JWT                                             *)
(***************************************************************************)
\* a compact JWT: the number of its dot-separated parts, the alg of its
\* header, and its payload segment: as it was signed, altered into another
\* JSON object, or altered into bytes that are no JSON object
JWT(parts, hdr_alg, payload) ==
    [ cls |-> "JWT", parts |-> parts, alg |-> hdr_alg, payload |-> payload ]

DecodeTokens ==
    { JWT(n, a, p) : n \in { 2, 3, 4 }, a \in { "HS256", "none" },
                     p \in { "signed", "altered", "garbled" } }

\* the times and skews decode is called with
DecodeTimes == { 1500, 4599, 4600, 5000, 5100 }
DecodeSkews == { 0, 1, 500 }

\* the claims of the payload as signed, iat = 1000 and exp = iat + 3600,
\* and of the altered payload, its exp raised
SignedClaims == PayloadClaims(1000 + 3600, 0 - 1, 1000)
AlteredClaims == PayloadClaims(1000 + 8600, 0 - 1, 1000)

\* no claims object exists yet
NoObject == [ cls |-> "none" ]

InitDecode ==
    /\ InitRegistry
    /\ ThreadsIdle
    /\ JSONIdle
    /\ JWKIdle
    /\ id_seq = 0
    /\ jwt \in DecodeTokens
    /\ this = NoObject
    /\ last = NoObjCall

\* verifier . verify ( part1 + "." + part2, signature ): the signature was
\* made over the payload as signed
verify(tok) == tok.payload = "signed"

\* the claims object decode constructs from the payload and locks
decode_claims(tok) ==
    [ (IF tok.payload = "signed" THEN SignedClaims ELSE AlteredClaims)
        EXCEPT !.locked = TRUE ]

\* the steps of JWTFactory::decode ( jwt, cur_time, skew ) in their order
decode_outcome(tok, cur_time, skew) ==
    IF tok.parts # 3 THEN "Malformed"
    ELSE IF tok.payload = "garbled" THEN "MalformedJSON"
    ELSE IF tok.alg \notin sign_accept THEN "AlgorithmUnavailable"
    ELSE IF ~ verify(tok) THEN "SignatureInvalid"
    ELSE validate_outcome(decode_claims(tok), cur_time, skew)

\* JWTFactory::decode ( jwt, cur_time, skew )
JWTFactory_decode ==
    /\ this = NoObject
    /\ \E cur_time \in DecodeTimes, skew \in DecodeSkews :
           /\ last' = ObjCall("decode", "", 0, cur_time, skew,
                              decode_outcome(jwt, cur_time, skew))
           /\ this' = IF decode_outcome(jwt, cur_time, skew) = "returned"
                      THEN mark_final(decode_claims(jwt))
                      ELSE this
    /\ UNCHANGED << regvars, mtvars, jsonvars, jwkvars, jwtvars >>

\* JWTClaims::addClaim ( name, value, isFinal ) on the claims decode returned
JWTClaims_addClaim ==
    /\ this.cls = "JWTClaims"
    /\ \E name \in ClaimKeys, val \in Vals, final \in BOOLEAN :
           SetMember("addClaim", final, name, val)
    /\ UNCHANGED << regvars, mtvars, jsonvars, jwkvars, jwtvars >>

NextDecode ==
    \/ JWTFactory_decode
    \/ JWTClaims_addClaim

SpecDecode == InitDecode /\ [][NextDecode]_vars

\* the token of the scenario: three parts, an available alg, the payload
\* as signed with iat = 1000 and exp = 4600
ScenarioToken == JWT(3, "HS256", "signed")

C23_VerifiedFirst ==
    (last.op = "decode" /\ jwt.parts = 3 /\ jwt.alg \in sign_accept
        /\ jwt.payload # "signed") =>
        last.outcome = "SignatureInvalid"

\* the value decode read for a claim
decoded_value(name) == decode_claims(jwt).members[name].val

MaxSigns == 2

\* id_seq is the static std :: atomic < unsigned long long > of JWTFactory;
\* targ [ t ] holds the jti thread t has in hand, jwt the tokens produced
InitSign ==
    /\ InitRegistry
    /\ JSONIdle
    /\ JWKIdle
    /\ this = NewFactory
    /\ last = NoObjCall
    /\ pc = [ t \in Threads |-> "idle" ]
    /\ targ = [ t \in Threads |-> << >> ]
    /\ id_seq = 0
    /\ jwt = << >>

\* the tokens thread t has produced
signed_by(t) == { i \in 1 .. Len(jwt) : jwt[i].by = t }

\* an increment that leaves the counter where it was
next_seq_stuck(seq) == seq

\* the value the atomic increment of id_seq stores and returns
next_seq(seq) == seq + 1

\* JWTFactory::sign: the claims are cloned and iat is stamped
sign_begin(t) ==
    /\ pc[t] = "idle"
    /\ Cardinality(signed_by(t)) < MaxSigns
    /\ pc' = [ pc EXCEPT ![t] = "newJTI" ]
    /\ UNCHANGED << regvars, jsonvars, objvars, jwkvars, jwtvars, targ >>

\* JWTFactory::newJTI: one atomic read-modify-write of id_seq
sign_newJTI(t) ==
    /\ pc[t] = "newJTI"
    /\ id_seq' = next_seq(id_seq)
    /\ targ' = [ targ EXCEPT ![t] = << next_seq(id_seq) >> ]
    /\ pc' = [ pc EXCEPT ![t] = "serialize" ]
    /\ UNCHANGED << regvars, jsonvars, objvars, jwkvars, jwt >>

\* JWTFactory::sign: the claims are serialized, signed and returned
sign_return(t) ==
    /\ pc[t] = "serialize"
    /\ jwt' = Append(jwt, [ by |-> t, jti |-> targ[t][1] ])
    /\ targ' = [ targ EXCEPT ![t] = << >> ]
    /\ pc' = [ pc EXCEPT ![t] = "idle" ]
    /\ UNCHANGED << regvars, jsonvars, objvars, jwkvars, id_seq >>

NextSign ==
    \E t \in Threads :
        \/ sign_begin(t)
        \/ sign_newJTI(t)
        \/ sign_return(t)

SpecSign == InitSign /\ [][NextSign]_vars

\* C25: the jti values stamped by sign calls that run concurrently on one
\* factory are pairwise distinct, and no two callers observe the same value
\* of the counter.
C25_DistinctJTI ==
    /\ \A i, j \in 1 .. Len(jwt) : i # j => jwt[i].jti # jwt[j].jti
    /\ \A t, u \in Threads :
           (t # u /\ targ[t] # << >>) => targ[u] # targ[t]
    /\ \A t \in Threads, i \in 1 .. Len(jwt) :
           targ[t] # << >> => jwt[i].jti # targ[t][1]

\* two sign calls of different threads have overlapped: the one that drew
\* its jti later returned its token first
C25_Witness ==
    \E i, j \in 1 .. Len(jwt) :
        /\ i < j
        /\ jwt[i].by # jwt[j].by
        /\ jwt[i].jti > jwt[j].jti

(***************************************************************************)
(* JWK: termination of parsePEM                                            *)
(***************************************************************************)
\* C26: parsePEM terminates on every text: every iteration that skips an
\* entry, one whose label does not end with " KEY" or a KEY entry with an
\* unsupported label, moves the offset the next search starts from strictly
\* forward, so the iterations are bounded by the length of the text.
C26_Advances ==
    [][ ( pem.pc = "loop" /\ pem'.pc = "loop" /\ pem'.i = pem.i + 1 ) =>
            ( pem'.end > pem.end /\ pem'.end <= Len(pem.pem_text) ) ]_vars

(***************************************************************************)
(* JSON parser: whitespace after the top-level value                       *)
(***************************************************************************)
\* the first k bytes of the text are a document the call accepts, and only
\* whitespace follows them
ClosedThenSpace(k) ==
    /\ SameCall(SubSeq(jtext, 1, k)).ok
    /\ \A i \in k + 1 .. Len(jtext) : isspace(jtext[i])

\* C27: parse and parseObject accept a document that is a valid top-level
\* object or array followed only by whitespace, and return the value they
\* return for the document without that whitespace.
C27_TrailingWhitespace ==
    Parsed =>
        \A k \in 1 .. Len(jtext) - 1 :
            ClosedThenSpace(k) =>
                /\ out.r.ok
                /\ out.r.val = SameCall(SubSeq(jtext, 1, k)).val

(***************************************************************************)
(* JWA registry: registrations made before the constructor                 *)
(***************************************************************************)
\* C28: a registration made before the JWAFactory constructor has run is
\* still present after it: the constructor allocates the maps only when
\* there are none, and leaves maps that exist, and what is registered in
\* them, as they are.
C28_CtorKeeps ==
    [][ ( phase = "static" /\ phase' = "live" ) =>
            /\ maps # 0 => ( maps' = maps /\ heap' = heap )
            /\ maps = 0 => ( maps' # 0 /\ heap'[maps'] = NewMaps )
            /\ signer_facts' = signer_facts
            /\ verifier_facts' = verifier_facts ]_vars

\* the constructor has run after a signer and a verifier were registered
C28_Witness ==
    /\ ret.op = "JWAFactory"
    /\ phase = "live"
    /\ DOMAIN signer_facts # {}
    /\ DOMAIN verifier_facts # {}

(***************************************************************************)
(* JWK: PEM texts that are not well-formed                                 *)
(***************************************************************************)
\* parsePEM has thrown "invalid PEM text" and made no key
FailedInvalidPEM ==
    /\ jwk.op = "parsePEM"
    /\ jwk.r = Fail("JWTException", "invalid PEM text")
    /\ jwk.key = NoKey

\* C29: parsePEM fails with "invalid PEM text" and returns no key for an
\* entry whose END label differs from its BEGIN label, in the iteration
\* that follows the entries passed over before it, and for a text without
\* a complete pair of BEGIN and END lines, in its first iteration.
C29_InvalidPEM ==
    \A k \in 0 .. MaxPEMEntries - 1 :
        ( pem.pem_text \in MismatchTexts(k)
          \/ (k = 0 /\ pem.pc # "idle" /\ pem.pem_text \in NoPairTexts) ) =>
            /\ pem.pc = "loop" => pem.i <= k
            /\ pem.pc = "done" => FailedInvalidPEM

(***************************************************************************)
(* JSON parser: numerals outside the grammar                               *)
(***************************************************************************)
\* byte i of the numeral n, 0 behind its end
Byte(n, i) == IF i \in 1 .. Len(n) THEN n[i] ELSE 0

\* a '-' that no digit follows
MinusWithoutDigit(n) ==
    \E i \in 1 .. Len(n) : n[i] = 45 /\ ~ isdigit(Byte(n, i + 1))

\* a leading 0 that another digit follows
LeadingZero(n) ==
    LET s == IF Byte(n, 1) = 45 THEN 2 ELSE 1
    IN  Byte(n, s) = 48 /\ isdigit(Byte(n, s + 1))

\* a '.' that no digit follows
PointWithoutDigit(n) ==
    \E i \in 1 .. Len(n) : n[i] = 46 /\ ~ isdigit(Byte(n, i + 1))

\* an exponent marker that no digit follows, behind its optional sign
ExponentWithoutDigit(n) ==
    \E i \in 1 .. Len(n) :
        /\ n[i] \in { 69, 101 }
        /\ ~ isdigit(Byte(n, IF Byte(n, i + 1) \in { 43, 45 }
                              THEN i + 2 ELSE i + 1))

\* the text between the brackets of a document of one element
Element(text) == SubSeq(text, 2, Len(text) - 1)

\* C30: parse rejects a document in which a number does not match the
\* grammar: a '-' that no digit follows, a leading 0 followed by another
\* digit, a '.' that no digit follows, or an exponent marker that, behind
\* its optional sign, no digit follows.
C30_NumberGrammar ==
    ( /\ Parsed
      /\ jtext \in NumberDocs
      /\ isdigit(Byte(Element(jtext), 1)) \/ Byte(Element(jtext), 1) = 45
      /\ \/ MinusWithoutDigit(Element(jtext))
         \/ LeadingZero(Element(jtext))
         \/ PointWithoutDigit(Element(jtext))
         \/ ExponentWithoutDigit(Element(jtext)) )
    => ~ out.r.ok

====
